---- MODULE Spec2Model ----
(***************************************************************************)
(* A model of the resource-query tools of AgentResource: the rank          *)
(* hierarchy, the query construction and validation of src/src/query_tools *)
(* and src/src/agent_tools.py, and the people/availability operations of   *)
(* src/agent_tools.py over the store read by firebase_utils.py.            *)
(*                                                                         *)
(* Python values are modelled as follows: a str is a TLA+ string, a list   *)
(* is a sequence, a dict is a function whose domain is its set of keys     *)
(* (the empty dict is <<>>), and None is the string None below, which is   *)
(* outside every text domain of the model.                                 *)
(***************************************************************************)
EXTENDS Integers, Sequences, FiniteSets, TLC

VARIABLES
    employees,      \* the store's employees collection, in stream order
    availability,   \* the store's availability collection, by employee number
    op,             \* the operation that ran last ("idle" before any)
    args,           \* its arguments
    ret,            \* the value it returned
    calls,          \* the data-store and LLM calls it made, in order
    store_ok        \* FALSE while every call to the data store raises

vars == <<employees, availability, op, args, ret, calls, store_ok>>

None == "<None>"

(***************************************************************************)
(* Python str operations, on TLA+ strings.                                 *)
(***************************************************************************)
UPPERCASE == "ABCDEFGHIJKLMNOPQRSTUVWXYZ"
LOWERCASE == "abcdefghijklmnopqrstuvwxyz"
DIGITS == "0123456789"
WHITESPACE == " \t\n\r"

CharAt(s, i) == SubSeq(s, i, i)

IndexIn(alphabet, c) ==
    IF \E i \in 1..Len(alphabet) : CharAt(alphabet, i) = c
    THEN CHOOSE i \in 1..Len(alphabet) : CharAt(alphabet, i) = c
    ELSE 0

LowerChar(c) ==
    LET i == IndexIn(UPPERCASE, c) IN IF i = 0 THEN c ELSE CharAt(LOWERCASE, i)

UpperChar(c) ==
    LET i == IndexIn(LOWERCASE, c) IN IF i = 0 THEN c ELSE CharAt(UPPERCASE, i)

RECURSIVE lower(_)
lower(s) ==
    IF s = "" THEN "" ELSE LowerChar(CharAt(s, 1)) \o lower(SubSeq(s, 2, Len(s)))

RECURSIVE upper(_)
upper(s) ==
    IF s = "" THEN "" ELSE UpperChar(CharAt(s, 1)) \o upper(SubSeq(s, 2, Len(s)))

IsSpace(c) == IndexIn(WHITESPACE, c) # 0

RECURSIVE lstrip(_)
lstrip(s) ==
    IF s # "" /\ IsSpace(CharAt(s, 1)) THEN lstrip(SubSeq(s, 2, Len(s))) ELSE s

RECURSIVE rstrip(_)
rstrip(s) ==
    IF s # "" /\ IsSpace(CharAt(s, Len(s)))
    THEN rstrip(SubSeq(s, 1, Len(s) - 1))
    ELSE s

strip(s) == rstrip(lstrip(s))

\* needle in hay
Contains(hay, needle) ==
    \E i \in 1..(Len(hay) - Len(needle) + 1) :
        SubSeq(hay, i, i + Len(needle) - 1) = needle

\* the pieces of s from index from on, cut at the leftmost occurrences of a
\* separator of the given width that do not overlap; hits are all its occurrences
RECURSIVE SplitAt(_, _, _, _)
SplitAt(s, width, hits, from) ==
    LET ahead == {i \in hits : i >= from}
    IN  IF ahead = {}
        THEN <<SubSeq(s, from, Len(s))>>
        ELSE LET i == CHOOSE i \in ahead : \A j \in ahead : i <= j
             IN  <<SubSeq(s, from, i - 1)>> \o SplitAt(s, width, hits, i + width)

\* s.split(sep), sep non-empty
Split(s, sep) ==
    SplitAt(s, Len(sep),
            {i \in 1..(Len(s) - Len(sep) + 1) : SubSeq(s, i, i + Len(sep) - 1) = sep}, 1)

\* the length of the leading run of non-whitespace characters of s
RECURSIVE WordLen(_)
WordLen(s) ==
    IF s = "" \/ IsSpace(CharAt(s, 1)) THEN 0 ELSE 1 + WordLen(SubSeq(s, 2, Len(s)))

\* s.split(): the maximal runs of non-whitespace characters
RECURSIVE SplitWS(_)
SplitWS(s) ==
    LET t == lstrip(s)
    IN  IF t = ""
        THEN <<>>
        ELSE <<SubSeq(t, 1, WordLen(t))>> \o SplitWS(SubSeq(t, WordLen(t) + 1, Len(t)))

\* s.replace(' ', '')
RECURSIVE RemoveSpaces(_)
RemoveSpaces(s) ==
    IF s = "" THEN ""
    ELSE (IF CharAt(s, 1) = " " THEN "" ELSE CharAt(s, 1))
            \o RemoveSpaces(SubSeq(s, 2, Len(s)))

isdigit(s) == s # "" /\ \A i \in 1..Len(s) : IndexIn(DIGITS, CharAt(s, i)) # 0

RECURSIVE int(_)
int(s) ==
    IF s = "" THEN 0
    ELSE 10 * int(SubSeq(s, 1, Len(s) - 1)) + (IndexIn(DIGITS, CharAt(s, Len(s))) - 1)

\* sep.join(parts)
RECURSIVE Join(_, _)
Join(sep, parts) ==
    IF parts = <<>> THEN ""
    ELSE IF Len(parts) = 1 THEN parts[1]
    ELSE parts[1] \o sep \o Join(sep, Tail(parts))

(***************************************************************************)
(* Python list and dict operations.                                        *)
(***************************************************************************)
Range(s) == {s[i] : i \in DOMAIN s}

\* [x for x in s if x in keep]
Filter(s, keep) == SelectSeq(s, LAMBDA x : x \in keep)

\* d[k] = v
Put(d, k, v) == [x \in (DOMAIN d) \cup {k} |-> IF x = k THEN v ELSE d[x]]

\* the keys of a dict kept as a list of <<key, value>> pairs, in insertion order
Keys(table) == [i \in DOMAIN table |-> table[i][1]]

\* table.get(k, default)
Get(table, k, default) ==
    IF \E i \in DOMAIN table : table[i][1] = k
    THEN table[CHOOSE i \in DOMAIN table : table[i][1] = k][2]
    ELSE default

\* sorted(s, key=lambda x: table[x]): a stable insertion sort, ascending
RECURSIVE InsertByLevel(_, _, _)
InsertByLevel(sorted, x, table) ==
    IF sorted = <<>> THEN <<x>>
    ELSE IF Get(table, x, 0) < Get(table, Head(sorted), 0)
         THEN <<x>> \o sorted
         ELSE <<Head(sorted)>> \o InsertByLevel(Tail(sorted), x, table)

RECURSIVE SortedByLevel(_, _)
SortedByLevel(s, table) ==
    IF s = <<>> THEN <<>>
    ELSE InsertByLevel(SortedByLevel(SubSeq(s, 1, Len(s) - 1), table), s[Len(s)], table)

RECURSIVE InsertInt(_, _)
InsertInt(sorted, x) ==
    IF sorted = <<>> THEN <<x>>
    ELSE IF x < Head(sorted) THEN <<x>> \o sorted
         ELSE <<Head(sorted)>> \o InsertInt(Tail(sorted), x)

\* sorted(weeks)
RECURSIVE SortedInts(_)
SortedInts(s) ==
    IF s = <<>> THEN <<>> ELSE InsertInt(SortedInts(SubSeq(s, 1, Len(s) - 1)), s[Len(s)])

\* list(range(1, n + 1))
RangeList(n) == [i \in 1..n |-> i]

\* the orders in which a Python set with these members may be iterated
Orders(set) ==
    {s \in [1..Cardinality(set) -> set] : \A x \in set : \E i \in DOMAIN s : s[i] = x}

(***************************************************************************)
(* The rank tables.  A dict is kept as the list of its <<name, level>>     *)
(* pairs, in insertion order: the order is what .keys() and .items() give. *)
(***************************************************************************)
\* src/agent_tools.py: the table of the root query tools
RANK_HIERARCHY ==
    << <<"Partner", 1>>, <<"Associate Partner", 2>>, <<"Consulting Director", 2>>,
       <<"Principal Consultant", 3>>, <<"Managing Consultant", 4>>,
       <<"Senior Consultant", 5>>, <<"Consultant", 6>>,
       <<"Consultant Analyst", 7>>, <<"Analyst", 8>> >>

\* src/src/query_tools/base.py: the table of the query-construction class
Base_RANK_HIERARCHY ==
    << <<"Partner", 1>>, <<"Associate Partner", 2>>, <<"Consulting Director", 2>>,
       <<"Managing Consultant", 3>>, <<"Principal Consultant", 4>>,
       <<"Senior Consultant", 5>>, <<"Consultant", 6>>,
       <<"Consultant Analyst", 7>>, <<"Analyst", 8>> >>

RankNames == Range(Keys(Base_RANK_HIERARCHY))

\* BaseResourceQueryTools.__init__
Base_locations ==
    <<"London", "Manchester", "Bristol", "Belfast", "Copenhagen", "Stockholm", "Oslo">>

Base_standard_skills ==
    {"Frontend Developer", "Backend Developer", "AWS Engineer", "Full Stack Developer",
     "Cloud Engineer", "Architect", "Product Manager", "Agile Coach", "Business Analyst"}

\* the ranks of the table with a level above the target's, in table order
RanksWithLevelAbove(table, target_level) ==
    SelectSeq(Keys(table), LAMBDA r : Get(table, r, 0) > target_level)

\* get_ranks_below with "level >= target_level": ranks of the same level come too
Base_get_ranks_below_Inclusive(rank) ==
    LET name == IF lower(rank) = "mc" THEN "Managing Consultant" ELSE rank
        target_level == Get(Base_RANK_HIERARCHY, name, 0)
    IN  IF target_level = 0
        THEN <<>>
        ELSE SortedByLevel(RanksWithLevelAbove(Base_RANK_HIERARCHY, target_level - 1),
                           Base_RANK_HIERARCHY)

\* BaseResourceQueryTools.get_ranks_below
Base_get_ranks_below(rank) ==
    LET name == IF lower(rank) = "mc" THEN "Managing Consultant" ELSE rank
        target_level == Get(Base_RANK_HIERARCHY, name, 0)
    IN  IF target_level = 0
        THEN <<>>
        ELSE SortedByLevel(RanksWithLevelAbove(Base_RANK_HIERARCHY, target_level),
                           Base_RANK_HIERARCHY)

\* ResourceQueryTools.get_ranks_below of src/agent_tools.py
get_ranks_below(rank) ==
    LET name == IF lower(rank) = "mc" THEN "Managing Consultant" ELSE rank
        target_level == Get(RANK_HIERARCHY, name, 0)
    IN  IF target_level = 0
        THEN <<>>
        ELSE SortedByLevel(RanksWithLevelAbove(RANK_HIERARCHY, target_level),
                           RANK_HIERARCHY)

(***************************************************************************)
(* BaseResourceQueryTools.construct_query (src/src/query_tools/base.py).   *)
(***************************************************************************)
\* the digit tokens of a list of tokens, as numbers
RECURSIVE DigitParts(_)
DigitParts(parts) ==
    IF parts = <<>> THEN <<>>
    ELSE (IF isdigit(Head(parts)) THEN <<int(Head(parts))>> ELSE <<>>)
            \o DigitParts(Tail(parts))

\* "Parse weeks": the list weeks, before it is sorted
ParsedWeeks(query_lower) ==
    IF Contains(query_lower, "next")
    THEN LET parts == SplitWS(Split(query_lower, "next")[2])
         IN  IF parts # <<>> /\ isdigit(parts[1]) THEN RangeList(int(parts[1])) ELSE <<>>
    ELSE IF Contains(query_lower, "weeks")
    THEN DigitParts(SplitWS(Split(query_lower, "weeks")[2]))
    ELSE LET parts == SplitWS(Split(query_lower, "week")[2])
         IN  IF parts # <<>> /\ isdigit(parts[1]) THEN <<int(parts[1])>> ELSE <<>>

WeeksClause(query, query_lower) ==
    IF Contains(query_lower, "week") /\ ParsedWeeks(query_lower) # <<>>
    THEN Put(query, "weeks", SortedInts(ParsedWeeks(query_lower)))
    ELSE query

is_hierarchy_query(query_lower) ==
    \E word \in {"below", "above", "under"} : Contains(query_lower, word)

is_all_consultants(query_lower) ==
    Contains(query_lower, "all consultants") /\ ~is_hierarchy_query(query_lower)

is_consulting_resources(query_lower) == Contains(query_lower, "consulting resources")

\* the hardcoded list of "all consultants" and "consulting resources"
AllConsultantsRanks ==
    <<"Principal Consultant", "Managing Consultant", "Senior Consultant",
      "Consultant", "Consultant Analyst">>

\* the first name of the list, in list order, whose form is part of text: forms[i]
\* is the form of names[i]; None when there is none
RECURSIVE FirstNamed(_, _, _)
FirstNamed(names, forms, text) ==
    IF names = <<>> THEN None
    ELSE IF Contains(text, Head(forms)) THEN Head(names)
    ELSE FirstNamed(Tail(names), Tail(forms), text)

BaseRankNames == Keys(Base_RANK_HIERARCHY)
BaseRankNamesLower == [i \in DOMAIN BaseRankNames |-> lower(BaseRankNames[i])]
BaseRankNamesLowerNoSpaces ==
    [i \in DOMAIN BaseRankNames |-> RemoveSpaces(lower(BaseRankNames[i]))]

IndexOf(s, x) == CHOOSE i \in DOMAIN s : s[i] = x /\ \A j \in 1..(i - 1) : s[j] # x

\* the branch "Handle complex range queries"
RangeClause(query, query_lower) ==
    LET below_rank ==
            IF Contains(query_lower, "mc") THEN "Managing Consultant"
            ELSE FirstNamed(BaseRankNames, BaseRankNamesLowerNoSpaces,
                            Split(query_lower, "below")[2])
        above_rank ==
            FirstNamed(BaseRankNames, BaseRankNamesLowerNoSpaces,
                       Split(query_lower, "above")[2])
        all_ranks == SortedByLevel(Keys(Base_RANK_HIERARCHY), Base_RANK_HIERARCHY)
    IN  IF below_rank # None /\ above_rank # None
        THEN Put(query, "ranks",
                 SubSeq(all_ranks, IndexOf(all_ranks, below_rank) + 1,
                        IndexOf(all_ranks, above_rank) - 1))
        ELSE query

\* "Handle ranks": the if/elif chain
RanksClause(query, query_lower) ==
    IF is_all_consultants(query_lower) \/ is_consulting_resources(query_lower)
    THEN Put(query, "ranks", AllConsultantsRanks)
    ELSE IF is_hierarchy_query(query_lower)
    THEN IF Contains(query_lower, "mc") \/ Contains(query_lower, "management consultant")
         THEN Put(query, "ranks", Base_get_ranks_below("Managing Consultant"))
         ELSE LET rank == FirstNamed(BaseRankNames, BaseRankNamesLower, query_lower)
              IN  IF rank = None THEN query
                  ELSE Put(query, "ranks", Base_get_ranks_below(rank))
    ELSE IF Contains(query_lower, "senior consultant")
    THEN Put(query, "rank", "Senior Consultant")
    ELSE IF /\ Contains(query_lower, "consultant")
            /\ ~\E mod \in {"principal", "managing", "analyst"} : Contains(query_lower, mod)
    THEN Put(query, "rank", "Consultant")
    ELSE IF Contains(query_lower, "below") /\ Contains(query_lower, "above")
    THEN RangeClause(query, query_lower)
    ELSE query

\* "Handle location": the last location of the list that the text names
LocationClause(query, query_lower) ==
    LET hits == {i \in DOMAIN Base_locations :
                    Contains(query_lower, lower(Base_locations[i]))}
    IN  IF hits = {} THEN query
        ELSE Put(query, "location",
                 Base_locations[CHOOSE i \in hits : \A j \in hits : j <= i])

\* the standard skills the text names
MatchedSkills(query_lower) ==
    {skill \in Base_standard_skills : Contains(query_lower, lower(skill))}

\* "Handle skills": standard_skills is a set, so the order of the list is the
\* set's iteration order, skill_order
SkillsClause(query, query_lower, skill_order) ==
    IF skill_order = <<>> THEN query ELSE Put(query, "skills", skill_order)

\* BaseResourceQueryTools.construct_query
Base_construct_query(query_str, skill_order) ==
    LET query_lower == lower(query_str)
    IN  SkillsClause(
            LocationClause(
                RanksClause(WeeksClause(<<>>, query_lower), query_lower),
                query_lower),
            query_lower, skill_order)

(***************************************************************************)
(* validate_query.  A candidate is a decoded JSON object: a dict whose     *)
(* values are tagged with their Python type, [t |-> "str", v |-> text] or  *)
(* [t |-> "list", v |-> list of texts].                                    *)
(***************************************************************************)
Str(text) == [t |-> "str", v |-> text]
List(items) == [t |-> "list", v |-> items]

Has(query, key) == key \in DOMAIN query
IsStr(query, key) == Has(query, key) /\ query[key].t = "str"
IsList(query, key) == Has(query, key) /\ query[key].t = "list"

\* "Location validation"
ValidateLocation(valid_query, query) ==
    IF IsStr(query, "location") /\ query["location"].v \in Range(Base_locations)
    THEN Put(valid_query, "location", query["location"].v)
    ELSE valid_query

\* "Handle location arrays": the valid cities go under location_in
ValidateLocations(valid_query, query) ==
    IF IsList(query, "locations") /\ Filter(query["locations"].v, Range(Base_locations)) # <<>>
    THEN Put(valid_query, "location_in", Filter(query["locations"].v, Range(Base_locations)))
    ELSE valid_query

\* "Rank validation"
ValidateRank(valid_query, query) ==
    IF IsStr(query, "rank") /\ query["rank"].v \in RankNames
    THEN Put(valid_query, "rank", query["rank"].v)
    ELSE valid_query

\* "Ranks validation"
ValidateRanks(valid_query, query) ==
    IF IsList(query, "ranks") /\ Filter(query["ranks"].v, RankNames) # <<>>
    THEN Put(valid_query, "ranks", Filter(query["ranks"].v, RankNames))
    ELSE valid_query

\* "Skills validation"
ValidateSkills(valid_query, query) ==
    IF IsList(query, "skills") /\ Filter(query["skills"].v, Base_standard_skills) # <<>>
    THEN Put(valid_query, "skills", Filter(query["skills"].v, Base_standard_skills))
    ELSE valid_query

\* ResourceQueryTools.validate_query of src/src/agent_tools.py
validate_query(query) ==
    ValidateSkills(
        ValidateRanks(
            ValidateRank(
                ValidateLocations(ValidateLocation(<<>>, query), query),
                query),
            query),
        query)

\* QueryTranslator.LOCATIONS: the city groups
Translator_LOCATIONS ==
    << <<"Britain", <<"London", "Bristol", "Manchester">> >>,
       <<"Northern Ireland", <<"Belfast">> >>,
       <<"Nordics", <<"Oslo", "Copenhagen", "Stockholm">> >> >>

\* QueryTranslator: LOCATIONS flattened by __init__, RANK_LEVELS, SKILL_RELATIONSHIPS
Translator_all_locations ==
    <<"London", "Bristol", "Manchester", "Belfast", "Oslo", "Copenhagen", "Stockholm">>

Translator_RANK_LEVELS ==
    << <<"Partner", 1>>, <<"Associate Partner", 2>>, <<"Consulting Director", 2>>,
       <<"Managing Consultant", 3>>, <<"Principal Consultant", 4>>,
       <<"Senior Consultant", 5>>, <<"Consultant", 6>>,
       <<"Consultant Analyst", 7>>, <<"Analyst", 8>> >>

\* QueryTranslator.RANK_HIERARCHY: each rank with its aliases
Translator_RANK_HIERARCHY ==
    << <<"Partner", <<"Par", "partner">> >>,
       <<"Associate Partner", <<"AP", "associate partner">> >>,
       <<"Consulting Director", <<"CD", "consulting director">> >>,
       <<"Managing Consultant", <<"MC", "management consultant", "managing consultant">> >>,
       <<"Principal Consultant", <<"PC", "principal consultant">> >>,
       <<"Senior Consultant", <<"SC", "senior consultant">> >>,
       <<"Consultant", <<"C", "consultant">> >>,
       <<"Consultant Analyst", <<"CA", "consultant analyst">> >>,
       <<"Analyst", <<"A", "analyst">> >> >>

\* the aliases of the table, as written
TableAliases ==
    UNION {Range(Translator_RANK_HIERARCHY[i][2]) : i \in DOMAIN Translator_RANK_HIERARCHY}

\* the rows of the table that list the alias, letter case apart
AliasRows(alias) ==
    {i \in DOMAIN Translator_RANK_HIERARCHY :
        \E a \in Range(Translator_RANK_HIERARCHY[i][2]) : lower(a) = lower(alias)}

\* __init__: rank_aliases[alias.lower()] = rank, a later row overwriting an
\* earlier one
rank_aliases ==
    [k \in {lower(a) : a \in TableAliases} |->
        Translator_RANK_HIERARCHY[
            CHOOSE i \in AliasRows(k) : \A j \in AliasRows(k) : j <= i][1]]

Translator_all_skills ==
    {"Frontend Developer", "Backend Developer", "AWS Engineer", "Cloud Engineer",
     "DevOps Engineer", "Data Engineer", "Solution Architect", "Business Analyst",
     "Product Manager", "Agile Coach", "Scrum Master", "Project Manager",
     "Digital Consultant"}

\* [x for x in query[key] if x in catalog]: a list gives its members that are in
\* the catalog; a str is iterated by character, and no character is a catalog name
TranslatorValid(query, key, catalog) ==
    IF query[key].t = "list" THEN Filter(query[key].v, catalog) ELSE <<>>

TranslatorValidateKey(valid_query, query, key, catalog) ==
    IF Has(query, key) /\ TranslatorValid(query, key, catalog) # <<>>
    THEN Put(valid_query, key, TranslatorValid(query, key, catalog))
    ELSE valid_query

\* QueryTranslator.validate_query
Translator_validate_query(query) ==
    TranslatorValidateKey(
        TranslatorValidateKey(
            TranslatorValidateKey(<<>>, query, "locations", Range(Translator_all_locations)),
            query, "ranks", Range(Keys(Translator_RANK_LEVELS))),
        query, "skills", Translator_all_skills)

(***************************************************************************)
(* The inputs of the translation operations.                               *)
(***************************************************************************)
(***************************************************************************)
(* QueryTranslator.translate_query.  An exception that leaves an operation *)
(* is the value Raised(its class); a filter is a record.                   *)
(***************************************************************************)
\* an entry of the calls log
Call(fn, arg) == [fn |-> fn, arg |-> arg]

Raised(exception) == [raised |-> exception]

\* any(word in query.lower() for word in ['available', 'availability', 'week'])
IsAvailabilityText(query) ==
    \E word \in {"available", "availability", "week"} : Contains(lower(query), word)

\* next((part.strip() for part in parts if 'EMP' in part), None), "" for None
RECURSIVE FirstEmpPart(_)
FirstEmpPart(parts) ==
    IF parts = <<>> THEN ""
    ELSE IF Contains(Head(parts), "EMP") THEN strip(Head(parts))
    ELSE FirstEmpPart(Tail(parts))

\* emp_numbers: one identifier from each line that holds "|" and "EMP"
RECURSIVE TableEmployees(_)
TableEmployees(lines) ==
    IF lines = <<>> THEN <<>>
    ELSE LET line == Head(lines)
             emp_id == FirstEmpPart(Split(line, "|"))
         IN  IF Contains(line, "|") /\ Contains(line, "EMP") /\ emp_id # ""
             THEN <<emp_id>> \o TableEmployees(Tail(lines))
             ELSE TableEmployees(Tail(lines))

\* the length of the run of characters of the alphabet that starts at s[i]
RECURSIVE RunLen(_, _, _)
RunLen(s, i, alphabet) ==
    IF i > Len(s) \/ IndexIn(alphabet, CharAt(s, i)) = 0 THEN 0
    ELSE 1 + RunLen(s, i + 1, alphabet)

\* re.findall(r'week\s*(\d+)', s), for the matches that start at s[i] or later
RECURSIVE WeekNumbersFrom(_, _)
WeekNumbersFrom(s, i) ==
    IF i + 3 > Len(s) THEN <<>>
    ELSE IF SubSeq(s, i, i + 3) # "week" THEN WeekNumbersFrom(s, i + 1)
    ELSE LET j == i + 4 + RunLen(s, i + 4, WHITESPACE)
             n == RunLen(s, j, DIGITS)
         IN  IF n = 0 THEN WeekNumbersFrom(s, i + 4)
             ELSE <<int(SubSeq(s, j, j + n - 1))>> \o WeekNumbersFrom(s, j + n)

\* translate_query, called with a str.  When the text is not answered from
\* its table rows and week numbers, prompt.format(query=query) raises IndexError
\* on the "{}" of the prompt text, before the completion call is made.
Translator_translate_query(query) ==
    LET emp_numbers == TableEmployees(Split(query, "\n"))
        weeks == WeekNumbersFrom(lower(query), 1)
    IN  IF IsAvailabilityText(query) /\ emp_numbers # <<>> /\ weeks # <<>>
        THEN [employee_numbers |-> emp_numbers, weeks |-> SortedInts(weeks)]
        ELSE Raised("IndexError")

(***************************************************************************)
(* json.loads and json.dumps for the filters of the program: an object     *)
(* whose values are strings or lists of strings, without escapes.  A parse *)
(* step is [ok, v, next]: whether it succeeded, the value read and the     *)
(* position after it.                                                      *)
(***************************************************************************)
QUOTE == "\""

ParseFail == [ok |-> FALSE, v |-> <<>>, next |-> 0]
Parsed(v, next) == [ok |-> TRUE, v |-> v, next |-> next]

\* the number of characters from s[i] on that come before the first c
RECURSIVE Until(_, _, _)
Until(s, i, c) ==
    IF i > Len(s) \/ CharAt(s, i) = c THEN 0 ELSE 1 + Until(s, i + 1, c)

SkipWS(s, i) == i + RunLen(s, i, WHITESPACE)

At(s, i, c) == i <= Len(s) /\ CharAt(s, i) = c

\* a string: the text between s[i] = '"' and the next '"'
ParseString(s, i) ==
    LET n == Until(s, i + 1, QUOTE)
    IN  IF At(s, i, QUOTE) /\ i + 1 + n <= Len(s)
        THEN Parsed(SubSeq(s, i + 1, i + n), i + n + 2)
        ELSE ParseFail

\* the items of a list after its '[' or after a ',': items read so far in acc
RECURSIVE ParseItems(_, _, _)
ParseItems(s, i, acc) ==
    LET item == ParseString(s, SkipWS(s, i))
        j == SkipWS(s, item.next)
    IN  IF ~item.ok THEN ParseFail
        ELSE IF At(s, j, "]") THEN Parsed(List(Append(acc, item.v)), j + 1)
        ELSE IF At(s, j, ",") THEN ParseItems(s, j + 1, Append(acc, item.v))
        ELSE ParseFail

\* a value: a string or a list of strings
ParseValue(s, i) ==
    IF At(s, i, QUOTE)
    THEN LET text == ParseString(s, i)
         IN  IF text.ok THEN Parsed(Str(text.v), text.next) ELSE ParseFail
    ELSE IF At(s, i, "[")
    THEN IF At(s, SkipWS(s, i + 1), "]")
         THEN Parsed(List(<<>>), SkipWS(s, i + 1) + 1)
         ELSE ParseItems(s, i + 1, <<>>)
    ELSE ParseFail

\* the pairs of an object after its '{' or after a ',': a repeated key keeps
\* its last value
RECURSIVE ParsePairs(_, _, _)
ParsePairs(s, i, acc) ==
    LET key == ParseString(s, SkipWS(s, i))
        colon == SkipWS(s, key.next)
        value == ParseValue(s, SkipWS(s, colon + 1))
        j == SkipWS(s, value.next)
    IN  IF ~key.ok \/ ~At(s, colon, ":") \/ ~value.ok THEN ParseFail
        ELSE IF At(s, j, "}") THEN Parsed(Put(acc, key.v, value.v), j + 1)
        ELSE IF At(s, j, ",") THEN ParsePairs(s, j + 1, Put(acc, key.v, value.v))
        ELSE ParseFail

ParseObject(s, i) ==
    IF ~At(s, i, "{") THEN ParseFail
    ELSE IF At(s, SkipWS(s, i + 1), "}") THEN Parsed(<<>>, SkipWS(s, i + 1) + 1)
    ELSE ParsePairs(s, i + 1, <<>>)

\* json.loads of a text that starts with '{': the object, when nothing but
\* whitespace follows it; ok is FALSE for JSONDecodeError
json_loads(s) ==
    LET object == ParseObject(s, SkipWS(s, 1))
    IN  IF object.ok /\ SkipWS(s, object.next) = Len(s) + 1 THEN object ELSE ParseFail

(***************************************************************************)
(* ResourceQueryTools.construct_query and translate_query of               *)
(* src/src/agent_tools.py.  A completion is what self.llm.complete does:   *)
(* it raises, or returns a text.                                           *)
(***************************************************************************)
Completion(text) == [raised |-> FALSE, text |-> text]
CompletionFails == [raised |-> TRUE, text |-> ""]

\* response.find('{') and response.rfind('}'), from 1; 0 when there is none
FindFirst(s, c) == IF Until(s, 1, c) = Len(s) THEN 0 ELSE Until(s, 1, c) + 1

RECURSIVE FindLast(_, _)
FindLast(s, c) ==
    IF s = "" THEN 0
    ELSE IF CharAt(s, Len(s)) = c THEN Len(s)
    ELSE FindLast(SubSeq(s, 1, Len(s) - 1), c)

\* "Clean and parse JSON": the text handed to json.loads, None for "return {}"
CleanResponse(response) ==
    IF At(response, 1, "{") THEN response
    ELSE IF FindFirst(response, "{") > 0
            /\ FindLast(response, "}") >= FindFirst(response, "{")
    THEN SubSeq(response, FindFirst(response, "{"), FindLast(response, "}"))
    ELSE None

\* construct_query: the filter, <<>> being the empty dict
Llm_construct_query(query_str, completion) ==
    IF completion.raised THEN <<>>
    ELSE LET response == CleanResponse(strip(completion.text))
         IN  IF response = None THEN <<>>
             ELSE IF json_loads(response).ok THEN validate_query(json_loads(response).v)
             ELSE <<>>

\* construct_query: the completion call it makes, whatever the text
Llm_construct_query_calls(query_str) == <<Call("llm.complete", query_str)>>

\* json.dumps(list, indent=2) at nesting depth one
JsonList(items) ==
    IF items = <<>> THEN "[]"
    ELSE "[\n    "
            \o Join(",\n    ", [i \in DOMAIN items |-> QUOTE \o items[i] \o QUOTE])
            \o "\n  ]"

\* the keys of a validated filter, in the order validate_query inserts them
ValidatedKeys == <<"location", "location_in", "rank", "ranks", "skills">>

\* json.dumps(structured_query, indent=2)
json_dumps(filter) ==
    LET keys == SelectSeq(ValidatedKeys, LAMBDA k : Has(filter, k))
        pair(k) == QUOTE \o k \o QUOTE \o ": "
                    \o (IF k \in {"location", "rank"}
                        THEN QUOTE \o filter[k] \o QUOTE
                        ELSE JsonList(filter[k]))
    IN  IF keys = <<>> THEN "{}"
        ELSE "{\n  " \o Join(",\n  ", [i \in DOMAIN keys |-> pair(keys[i])]) \o "\n}"

CouldNotParse == "Error: Could not parse query structure"

\* translate_query, called with a str
Llm_translate_query(query_str, completion) ==
    LET structured_query == Llm_construct_query(query_str, completion)
    IN  IF structured_query = <<>> THEN CouldNotParse ELSE json_dumps(structured_query)

MaxList == 2

SeqsUpTo(set, n) == UNION {[1..k -> set] : k \in 0..n}

\* the arguments get_ranks_below is called with: every canonical name, the alias
\* in several letter cases, and names that are not in the table
RankArgs ==
    RankNames \cup {"mc", "MC", "Mc", "partner", "PARTNER", "Director", "Management Consultant", ""}
        \cup TableAliases \cup {"ap", "Sc"}

\* a rank name as a query writes it: singular or plural, in any letter case
RankForms(rank) ==
    {rank, lower(rank), upper(rank), rank \o "s", lower(rank) \o "s"}

PlaceTails == {"", " in London", " in Manchester"}

\* queries that name one rank, with or without a city
SpecificTexts == {form \o tail : form \in UNION {RankForms(r) : r \in RankNames},
                                 tail \in PlaceTails}

\* queries with a collective phrase
CollectiveTexts ==
    {head \o phrase \o tail :
        head \in {"", "show me "},
        phrase \in {"all consultants", "All Consultants", "consulting resources",
                    "Consulting Resources"},
        tail \in PlaceTails}

\* queries with a hierarchy keyword and a rank
HierarchyTexts ==
    {head \o word \o " " \o rank :
        head \in {"", "all consultants ", "staff ", "consulting resources ", "partners "},
        word \in {"below", "above", "under"},
        rank \in RankNames \cup {"MC", "mc"}}

RangeTexts ==
    {"staff below " \o x \o " and above " \o y :
        x \in {"Partner", "MC"}, y \in {"Consultant", "Analyst"}}

WeekTexts ==
    {"who is available in week 3", "consultants available in weeks 3 and 4",
     "who is available in the next 2 weeks", "available next week",
     "consultants available in weeks 4 and 3", "availability for weeks x and 2",
     "people available in week 12 in Oslo", "available in weeks 3 and 3",
     "available in week 0", "next 3 weeks", "week 2", "weeks 2 and 5"}

SkillTexts ==
    {"Frontend Developers in Oslo", "cloud engineers",
     "frontend developers or backend developers in London",
     "AWS engineers in Manchester", "people in Copenhagen", "employees", ""}

\* queries that name a city in another letter case, or a city group
PlaceTexts ==
    {"people in LONDON", "staff in oslo", "architects in bristol", "people in Britain",
     "consultants in the Nordics", "all consultants in britain", "people in Paris"}

QueryTexts ==
    SpecificTexts \cup CollectiveTexts \cup HierarchyTexts \cup RangeTexts
        \cup WeekTexts \cup SkillTexts \cup PlaceTexts

\* the values a decoded LLM response may hold under each key; an absent key is
\* the value Absent
Absent == [t |-> "absent", v |-> <<>>]

RankValues == {Absent, Str("Partner"), Str("Boss")}
RanksValues ==
    {Absent, Str("Chief")}
        \cup {List(l) : l \in SeqsUpTo({"Consultant", "Chief"}, MaxList)}
LocationValues == {Absent, Str("London"), Str("Paris")}
LocationsValues ==
    {Absent} \cup {List(l) : l \in SeqsUpTo({"Oslo", "Atlantis"}, MaxList)}
SkillsValues ==
    {Absent} \cup {List(l) : l \in SeqsUpTo({"Frontend Developer", "Juggler"}, MaxList)}

Candidate(rank, ranks, location, locations, skills) ==
    LET all == [k \in {"rank", "ranks", "location", "locations", "skills"} |->
                    CASE k = "rank" -> rank
                      [] k = "ranks" -> ranks
                      [] k = "location" -> location
                      [] k = "locations" -> locations
                      [] k = "skills" -> skills]
    IN  [k \in {x \in DOMAIN all : all[x].t # "absent"} |-> all[k]]

Candidates ==
    {Candidate(r, rs, l, ls, sk) :
        r \in RankValues, rs \in RanksValues, l \in LocationValues,
        ls \in LocationsValues, sk \in SkillsValues}

(***************************************************************************)
(* The translation operations as steps: each runs from idle, start to      *)
(* finish, and Return takes its result back to idle.                       *)
(***************************************************************************)
Idle == op = "idle"

Done(name, arguments, result, made) ==
    /\ op' = name
    /\ args' = arguments
    /\ ret' = result
    /\ calls' = made
    /\ UNCHANGED <<employees, availability, store_ok>>

GetRanksBelow ==
    /\ Idle
    /\ \E rank \in RankArgs :
        Done("get_ranks_below", rank, Base_get_ranks_below(rank), <<>>)

ConstructQuery ==
    /\ Idle
    /\ \E query_str \in QueryTexts :
        \E skill_order \in Orders(MatchedSkills(lower(query_str))) :
            Done("construct_query", query_str,
                 Base_construct_query(query_str, skill_order), <<>>)

ValidateQuery ==
    /\ Idle
    /\ \E query \in Candidates :
        Done("validate_query", query, validate_query(query), <<>>)

TranslatorValidateQuery ==
    /\ Idle
    /\ \E query \in Candidates :
        Done("Translator_validate_query", query, Translator_validate_query(query), <<>>)

Return ==
    /\ ~Idle
    /\ Done("idle", None, None, <<>>)

(***************************************************************************)
(* The data store as firebase_utils.py reads it.  An employee is a record  *)
(* [employee_number, name, location, rank, skills], rank being the         *)
(* official name; an availability document is a record                     *)
(* [pattern_description, weeks], weeks mapping the week numbers that have  *)
(* a document to its status.                                               *)
(***************************************************************************)
\* the documents of the query built by fetch_employees: name is no filter it knows
Matches(employee, filters) ==
    /\ Has(filters, "location") => employee.location = filters["location"]
    /\ Has(filters, "rank") => employee.rank = filters["rank"]
    /\ Has(filters, "ranks") => employee.rank \in Range(filters["ranks"])
    /\ Has(filters, "skills") => Range(employee.skills) \cap Range(filters["skills"]) # {}

\* fetch_employees: the matching employees; the empty list when the store raises
fetch_employees(filters) ==
    IF store_ok THEN SelectSeq(employees, LAMBDA e : Matches(e, filters)) ELSE <<>>

\* fetch_availability: the document of the employee, None when there is none
fetch_availability(employee_number) ==
    IF store_ok /\ employee_number \in DOMAIN availability
    THEN availability[employee_number]
    ELSE None

HasEmployee(emp_num) == \E i \in DOMAIN employees : employees[i].employee_number = emp_num
HasAvailability(emp_num) == emp_num \in DOMAIN availability

\* next(doc for doc in emp_docs): the first employee with the number
EmployeeData(emp_num) ==
    LET hits == SelectSeq(employees, LAMBDA e : e.employee_number = emp_num)
    IN  Head(hits)

\* WeeksData without the else branch: a week with no record is left out
WeeksData_RecordedOnly(emp_num, weeks) ==
    LET recorded == SelectSeq(weeks, LAMBDA w : w \in DOMAIN availability[emp_num].weeks)
    IN  [i \in DOMAIN recorded |-> availability[emp_num].weeks[recorded[i]]]

\* the status of each requested week: the document's, or Unknown
WeeksData(emp_num, weeks) ==
    [i \in DOMAIN weeks |->
        IF weeks[i] \in DOMAIN availability[emp_num].weeks
        THEN availability[emp_num].weeks[weeks[i]]
        ELSE "Unknown"]

\* the loop of fetch_availability_batch: an entry per employee number that has
\* an employee document and an availability document, in the order of
\* employee_numbers
RECURSIVE AvailabilityEntries(_, _)
AvailabilityEntries(employee_numbers, weeks) ==
    IF employee_numbers = <<>> THEN <<>>
    ELSE LET emp_num == Head(employee_numbers)
             \* results is a dict: a number listed again takes the same entry
             rest == AvailabilityEntries(
                        SelectSeq(Tail(employee_numbers), LAMBDA n : n # emp_num), weeks)
         IN  IF HasEmployee(emp_num) /\ HasAvailability(emp_num)
             THEN << [emp_num |-> emp_num,
                      employee_data |-> EmployeeData(emp_num),
                      pattern_description |-> availability[emp_num].pattern_description,
                      weeks |-> WeeksData(emp_num, weeks)] >> \o rest
             ELSE rest

\* fetch_availability_batch: the entries; no entry at all when the store raises
fetch_availability_batch(employee_numbers, weeks) ==
    IF store_ok THEN AvailabilityEntries(employee_numbers, weeks) ELSE <<>>

(***************************************************************************)
(* ResourceQueryTools of src/agent_tools.py: the people query.  The        *)
(* argument of query_people is tagged with its Python type: NoArg (the     *)
(* default None), Str(text) or Dict(filter).                               *)
(***************************************************************************)
NoArg == [t |-> "none", v |-> None]
Dict(d) == [t |-> "dict", v |-> d]

standard_skills ==
    {"Frontend Developer", "Backend Developer", "Full Stack Developer", "AWS Engineer",
     "GCP Engineer", "Cloud Engineer", "Architect", "Product Manager", "Agile Coach",
     "Business Analyst"}

RootRankNames == Keys(RANK_HIERARCHY)
RootRankNamesLowerNoSpaces ==
    [i \in DOMAIN RootRankNames |-> RemoveSpaces(lower(RootRankNames[i]))]

IsLetter(c) == IndexIn(UPPERCASE, c) # 0 \/ IndexIn(LOWERCASE, c) # 0

\* str.title(): a letter after a letter is lowered, any other letter is raised
RECURSIVE TitleFrom(_, _)
TitleFrom(s, after_letter) ==
    IF s = "" THEN ""
    ELSE (IF after_letter THEN LowerChar(CharAt(s, 1)) ELSE UpperChar(CharAt(s, 1)))
            \o TitleFrom(SubSeq(s, 2, Len(s)), IsLetter(CharAt(s, 1)))

title(s) == TitleFrom(s, FALSE)

\* extract_employee_name
extract_employee_name(query) ==
    IF Contains(query, "similar to") THEN title(strip(Split(query, "similar to")[2]))
    ELSE IF Contains(query, "like") THEN title(strip(Split(query, "like")[2]))
    ELSE None

\* get_employee_skills: the skills of the first employee fetch_employees returns
\* for {"name": name}
get_employee_skills(name) ==
    LET found == fetch_employees([name |-> name])
    IN  IF found # <<>> THEN Head(found).skills ELSE <<>>

is_generic_consultant_query(query_lower) ==
    /\ Contains(query_lower, "consultant")
    /\ \/ is_hierarchy_query(query_lower)
       \/ Contains(query_lower, "all")
       \/ Contains(query_lower, "resources")

\* the ranks whose name holds "Consultant", Consulting Director apart
ConsultantRanks ==
    SelectSeq(RootRankNames, LAMBDA r : Contains(r, "Consultant") /\ r # "Consulting Director")

\* query_people: "Handle rank filtering with context awareness"
PeopleRankClause(query, query_lower) ==
    IF is_generic_consultant_query(query_lower)
    THEN IF Contains(query_lower, "mc") \/ Contains(query_lower, "managing")
         THEN Put(query, "ranks", get_ranks_below("Managing Consultant"))
         ELSE IF Contains(query_lower, "principal")
         THEN Put(query, "ranks", get_ranks_below("Principal Consultant"))
         ELSE IF Contains(query_lower, "partner")
         THEN Put(query, "ranks", get_ranks_below("Partner"))
         ELSE Put(query, "ranks", ConsultantRanks)
    ELSE IF Contains(query_lower, "consultant")
    THEN IF ~\E mod \in {"senior", "principal", "managing", "analyst"} :
                Contains(query_lower, mod)
         THEN Put(query, "rank", "Consultant")
         ELSE query
    ELSE IF Contains(query_lower, "below")
    THEN IF Contains(query_lower, "mc")
         THEN Put(query, "ranks", get_ranks_below("Managing Consultant"))
         ELSE LET rank == FirstNamed(RootRankNames, RootRankNamesLowerNoSpaces, query_lower)
              IN  IF rank = None THEN query
                  ELSE Put(query, "ranks", get_ranks_below(rank))
    ELSE IF Contains(query_lower, "partner") /\ ~Contains(query_lower, "associate")
    THEN Put(query, "rank", "Partner")
    ELSE query

\* query_people: "Handle location"
PeopleLocationClause(query, query_lower) ==
    IF Contains(query_lower, "london") THEN Put(query, "location", "London")
    ELSE IF Contains(query_lower, "manchester") THEN Put(query, "location", "Manchester")
    ELSE IF Contains(query_lower, "bristol") THEN Put(query, "location", "Bristol")
    ELSE IF Contains(query_lower, "belfast") THEN Put(query, "location", "Belfast")
    ELSE query

IsSimilarityQuery(query_lower) ==
    Contains(query_lower, "similar to") \/ Contains(query_lower, "like")

\* query_people: "Handle skill matching"
PeopleSkillClause(query, query_lower) ==
    IF /\ IsSimilarityQuery(query_lower)
       /\ extract_employee_name(query_lower) # ""
       /\ get_employee_skills(extract_employee_name(query_lower)) # <<>>
    THEN Put(query, "skills", get_employee_skills(extract_employee_name(query_lower)))
    ELSE query

\* query_people: the dict query built from the argument
PeopleQuery(query_str) ==
    IF query_str.t = "str"
    THEN LET query_lower == lower(query_str.v)
         IN  PeopleSkillClause(
                PeopleLocationClause(PeopleRankClause(<<>>, query_lower), query_lower),
                query_lower)
    ELSE IF query_str.t = "dict" THEN query_str.v
    ELSE <<>>

\* 'skills' in query and query['skills']; the queries of the model carry their
\* skills as a list, which query_people takes as it is
HasSkills(query) == Has(query, "skills") /\ query["skills"] # <<>>

\* the skills check left out: every requested skill is kept
valid_skills_Unfiltered(query) == query["skills"]

valid_skills(query) == Filter(query["skills"], standard_skills)

\* query_people: "Build filters dictionary", without the skills
PeopleRankLocationFilters(query) ==
    LET ranked == IF Has(query, "ranks") THEN Put(<<>>, "ranks", query["ranks"])
                  ELSE IF Has(query, "rank") THEN Put(<<>>, "rank", query["rank"])
                  ELSE <<>>
    IN  IF Has(query, "location") /\ query["location"] # "" /\ query["location"] # None
        THEN Put(ranked, "location", query["location"])
        ELSE ranked

PeopleFilters(query) ==
    IF HasSkills(query)
    THEN Put(PeopleRankLocationFilters(query), "skills", valid_skills(query))
    ELSE PeopleRankLocationFilters(query)

SkillNotUnderstood ==
    "I couldn't understand the requested skill. Please use terms like 'Frontend Developer', 'Backend Developer', 'AWS Engineer', etc."

NoMatchingEmployees == "No matching employees found."

\* one row of a markdown table
TableRow(cells) == "| " \o Join(" | ", cells) \o " |"

PeopleTableHeader ==
    "| Name | Location | Rank | Skills | Employee ID |\n"
        \o "|------|----------|------|---------|-------------|\n"

RECURSIVE PeopleTableRows(_)
PeopleTableRows(results) ==
    IF results = <<>> THEN ""
    ELSE LET emp == Head(results)
         IN  TableRow(<<emp.name, emp.location, emp.rank, Join(", ", emp.skills),
                        emp.employee_number>>) \o "\n" \o PeopleTableRows(Tail(results))

\* query_people: the string it returns
query_people(query_str) ==
    LET query == PeopleQuery(query_str)
    IN  IF HasSkills(query) /\ valid_skills(query) = <<>>
        THEN SkillNotUnderstood
        ELSE LET results == fetch_employees(PeopleFilters(query))
             IN  IF results = <<>> THEN NoMatchingEmployees
                 ELSE PeopleTableHeader \o PeopleTableRows(results)

\* query_people: the data-store calls it makes
query_people_calls(query_str) ==
    LET query == PeopleQuery(query_str)
        lookup == IF /\ query_str.t = "str"
                     /\ IsSimilarityQuery(lower(query_str.v))
                     /\ extract_employee_name(lower(query_str.v)) # ""
                  THEN <<Call("fetch_employees",
                              [name |-> extract_employee_name(lower(query_str.v))])>>
                  ELSE <<>>
    IN  IF HasSkills(query) /\ valid_skills(query) = <<>>
        THEN lookup
        ELSE lookup \o <<Call("fetch_employees", PeopleFilters(query))>>

(***************************************************************************)
(* ResourceQueryTools of src/agent_tools.py: ranks and availability.       *)
(***************************************************************************)
\* the truth value Python gives a str or None
Truthy(x) == x # None /\ x # ""

is_rank_below(rank1, rank2) == Get(RANK_HIERARCHY, rank1, 0) < Get(RANK_HIERARCHY, rank2, 0)

is_rank_above(rank1, rank2) == Get(RANK_HIERARCHY, rank1, 0) > Get(RANK_HIERARCHY, rank2, 0)

\* what a call that may raise hands back when it returns
Returned(value) == [returned |-> value]

\* translate_skill_query: the completion's text, stripped, when it is a
\* standard skill, None otherwise; the completion call is in no try
translate_skill_query(skill_query, completion) ==
    IF completion.raised THEN Raised("Exception")
    ELSE IF strip(completion.text) \in standard_skills
    THEN Returned(strip(completion.text))
    ELSE Returned(None)

RanksToolHelp == "Please specify a rank query like 'below MC' or 'below Partner'"

\* get_ranks_tool, called with a str
get_ranks_tool(query_str) ==
    LET query_lower == lower(query_str)
        rank == FirstNamed(RootRankNames, RootRankNamesLowerNoSpaces, query_lower)
    IN  IF ~Contains(query_lower, "below") THEN RanksToolHelp
        ELSE IF Contains(query_lower, "mc")
        THEN "Ranks below Managing Consultant (MC):\n- "
                \o Join("\n- ", get_ranks_below("Managing Consultant"))
        ELSE IF rank # None
        THEN "Ranks below " \o rank \o ":\n- " \o Join("\n- ", get_ranks_below(rank))
        ELSE RanksToolHelp

is_fully_available_Unstripped(pattern, status) ==
    pattern = "Generally available" /\ status = "Available"

is_fully_available(pattern, status) ==
    LET stripped_pattern == IF Truthy(pattern) THEN strip(pattern) ELSE ""
        stripped_status == IF Truthy(status) THEN strip(status) ELSE ""
    IN  stripped_pattern = "Generally available" /\ stripped_status = "Available"

\* str(n) of a natural number
RECURSIVE IntStr(_)
IntStr(n) ==
    IF n < 10 THEN CharAt(DIGITS, n + 1)
    ELSE IntStr(n \div 10) \o CharAt(DIGITS, (n % 10) + 1)

\* the weeks asked about when the caller names none
DefaultWeeks == [i \in 1..8 |-> i]

RequestedWeeks(weeks) == IF weeks = <<>> THEN DefaultWeeks ELSE weeks

AvailabilityTableHeader(weeks) ==
    "| Name | Pattern | "
        \o Join(" | ", [i \in DOMAIN weeks |-> "Week " \o IntStr(weeks[i])]) \o " |\n"
        \o "|------|---------|" \o Join("|", [i \in DOMAIN weeks |-> "---"]) \o "|"

RECURSIVE AvailabilityTableRows(_)
AvailabilityTableRows(results) ==
    IF results = <<>> THEN ""
    ELSE LET data == Head(results)
         IN  "\n" \o TableRow(<<data.employee_data.name, data.pattern_description,
                                Join(" | ", data.weeks)>>)
                  \o AvailabilityTableRows(Tail(results))

\* query_availability, called with a list of employee numbers; weeks is <<>>
\* for None as for the empty list
query_availability(employee_numbers, weeks) ==
    AvailabilityTableHeader(RequestedWeeks(weeks))
        \o AvailabilityTableRows(
                fetch_availability_batch(employee_numbers, RequestedWeeks(weeks)))

(***************************************************************************)
(* query_available_people.  Its keyword arguments are one record kwargs;   *)
(* a list argument is <<>> for None as for the empty list.                 *)
(***************************************************************************)
\* the two glyphs of the report, U+2713 and U+274C, spelled in ASCII
TICK == "<U+2713>"
CROSS == "<U+274C>"

\* the keys of filters, in the order the code sets them
FilterArguments(kwargs) ==
    IF kwargs.employee_numbers # <<>> THEN <<"employee_numbers">>
    ELSE (IF kwargs.skills # <<>> THEN <<"skills">> ELSE <<>>)
            \o (IF Truthy(kwargs.location) THEN <<"location">> ELSE <<>>)
            \o (IF Truthy(kwargs.rank) THEN <<"rank">> ELSE <<>>)

\* the TypeError of query_people(**filters) for a keyword it does not take:
\* its text names the function with or without its class, by Python version
UnexpectedKeyword(key) ==
    {qualname \o "query_people() got an unexpected keyword argument '" \o key \o "'" :
        qualname \in {"", "ResourceQueryTools."}}

\* [p.strip() for p in line.split('|')]
Parts(line) == LET cut == Split(line, "|") IN [i \in DOMAIN cut |-> strip(cut[i])]

Lines(text) == Split(text, "\n")

\* the rows of people_results, as the details the code keeps of each
ParsedPeople(people_results) ==
    LET rows == SelectSeq(Lines(people_results),
                          LAMBDA line : Contains(line, "|") /\ Contains(line, "EMP"))
    IN  [i \in DOMAIN rows |->
            LET parts == Parts(rows[i])
            IN  [emp_id |-> parts[Len(parts) - 1], name |-> parts[2],
                 location |-> parts[3], rank |-> parts[4], skills |-> parts[5]]]

\* "Apply rank filters"
PassesRankFilters(emp_rank, rank_below, rank_above) ==
    /\ Truthy(rank_below) => is_rank_below(emp_rank, rank_below)
    /\ Truthy(rank_above) => is_rank_above(emp_rank, rank_above)

\* emp_details, in insertion order
EmpDetails(people_results, rank_below, rank_above) ==
    SelectSeq(ParsedPeople(people_results),
              LAMBDA emp : PassesRankFilters(emp.rank, rank_below, rank_above))

\* the rows of the availability table the code reads: name, pattern and status
AvailabilityRows(table) ==
    LET lines == SelectSeq(Lines(table), LAMBDA line : Contains(line, "|"))
        parted == [i \in DOMAIN lines |-> Parts(lines[i])]
        rows == SelectSeq(parted, LAMBDA parts : Len(parts) >= 4)
    IN  [i \in DOMAIN rows |->
            [name |-> rows[i][2], pattern |-> rows[i][3], status |-> rows[i][4]]]

\* next(id for id, details in emp_details.items() if details['name'] == name)
HasNamed(emp_details, name) == \E i \in DOMAIN emp_details : emp_details[i].name = name

FirstNamedEmployee(emp_details, name) ==
    Head(SelectSeq(emp_details, LAMBDA emp : emp.name = name))

\* availability_details.get(emp_id, {}): the last row stored for the employee
AvailabilityDetails(emp_details, rows, emp_id) ==
    LET stored == SelectSeq(rows, LAMBDA row :
                        /\ HasNamed(emp_details, row.name)
                        /\ FirstNamedEmployee(emp_details, row.name).emp_id = emp_id)
    IN  IF stored = <<>> THEN [pattern |-> "Unknown", status |-> "Unknown"]
        ELSE [pattern |-> stored[Len(stored)].pattern, status |-> stored[Len(stored)].status]

\* fully_available, before it is sorted
RECURSIVE FullyAvailable(_, _)
FullyAvailable(emp_details, rows) ==
    IF rows = <<>> THEN <<>>
    ELSE LET row == Head(rows)
         IN  (IF /\ HasNamed(emp_details, row.name)
                 /\ is_fully_available(row.pattern, row.status)
              THEN <<FirstNamedEmployee(emp_details, row.name)>>
              ELSE <<>>) \o FullyAvailable(emp_details, Tail(rows))

\* the characters of the names, in code point order
CODEPOINTS == " 0123456789ABCDEFGHIJKLMNOPQRSTUVWXYZabcdefghijklmnopqrstuvwxyz"

\* a < b of two str
RECURSIVE StrLess(_, _)
StrLess(a, b) ==
    IF b = "" THEN FALSE
    ELSE IF a = "" THEN TRUE
    ELSE IF CharAt(a, 1) = CharAt(b, 1)
         THEN StrLess(SubSeq(a, 2, Len(a)), SubSeq(b, 2, Len(b)))
         ELSE IndexIn(CODEPOINTS, CharAt(a, 1)) < IndexIn(CODEPOINTS, CharAt(b, 1))

\* the sort key (RANK_HIERARCHY.get(x['rank'], 0), x['name']) of x below that of y
KeyLess(x, y) ==
    LET level_x == Get(RANK_HIERARCHY, x.rank, 0)
        level_y == Get(RANK_HIERARCHY, y.rank, 0)
    IN  level_x < level_y \/ (level_x = level_y /\ StrLess(x.name, y.name))

RECURSIVE InsertDescending(_, _)
InsertDescending(sorted, x) ==
    IF sorted = <<>> THEN <<x>>
    ELSE IF KeyLess(Head(sorted), x) THEN <<x>> \o sorted
         ELSE <<Head(sorted)>> \o InsertDescending(Tail(sorted), x)

\* sorted(fully_available, key=..., reverse=True): stable, largest key first
RECURSIVE SortedRoster(_)
SortedRoster(s) ==
    IF s = <<>> THEN <<>>
    ELSE InsertDescending(SortedRoster(SubSeq(s, 1, Len(s) - 1)), s[Len(s)])

\* the lines of people_results that hold the name of a kept employee
FoundLines(people_results, emp_details) ==
    SelectSeq(Lines(people_results),
              LAMBDA line : \E i \in DOMAIN emp_details : Contains(line, emp_details[i].name))

RECURSIVE StatusBlocks(_, _, _)
StatusBlocks(emps, emp_details, rows) ==
    IF emps = <<>> THEN ""
    ELSE LET emp == Head(emps)
             avail == AvailabilityDetails(emp_details, rows, emp.emp_id)
         IN  "\n" \o (IF is_fully_available(avail.pattern, avail.status) THEN TICK ELSE CROSS)
                  \o " " \o emp.name \o " (" \o emp.rank \o "):\n"
                  \o "  - Pattern: " \o avail.pattern \o "\n"
                  \o "  - Status: " \o avail.status \o "\n"
                  \o StatusBlocks(Tail(emps), emp_details, rows)

RosterLine(emp) == TICK \o " " \o emp.name \o " (" \o emp.rank \o ", " \o emp.location \o ")\n"

RECURSIVE RosterLines(_)
RosterLines(roster) ==
    IF roster = <<>> THEN "" ELSE RosterLine(Head(roster)) \o RosterLines(Tail(roster))

NoFullyAvailable == CROSS \o " No fully available people found.\n"

\* "Format the response"
Response(people_results, emp_details, rows) ==
    "Found matching employees:\n"
        \o Join("\n", FoundLines(people_results, emp_details))
        \o "\n\nAvailability Status:\n"
        \o StatusBlocks(emp_details, emp_details, rows)
        \o "\n"
        \o (IF FullyAvailable(emp_details, rows) # <<>>
            THEN "FULLY AVAILABLE PEOPLE:\n"
                    \o RosterLines(SortedRoster(FullyAvailable(emp_details, rows)))
            ELSE NoFullyAvailable)

NoRankMatch == "No employees found matching the rank criteria."

EmpNumbers(emp_details) == [i \in DOMAIN emp_details |-> emp_details[i].emp_id]

\* query_available_people: the strings it can return
query_available_people(kwargs) ==
    IF FilterArguments(kwargs) # <<>>
    THEN {"Error querying available people: " \o message :
            message \in UnexpectedKeyword(Head(FilterArguments(kwargs)))}
    ELSE LET people_results == query_people(NoArg)
             emp_details == EmpDetails(people_results, kwargs.rank_below, kwargs.rank_above)
         IN  IF Contains(people_results, "No employees found") THEN {people_results}
             ELSE IF emp_details = <<>> THEN {NoRankMatch}
             ELSE {Response(people_results, emp_details,
                            AvailabilityRows(query_availability(EmpNumbers(emp_details),
                                                                kwargs.weeks)))}

query_available_people_calls_Eager(kwargs) ==
    IF FilterArguments(kwargs) # <<>> THEN <<>>
    ELSE LET emp_details == EmpDetails(query_people(NoArg), kwargs.rank_below,
                                       kwargs.rank_above)
         IN  query_people_calls(NoArg)
                \o <<Call("fetch_availability_batch",
                          [employee_numbers |-> EmpNumbers(emp_details),
                           weeks |-> RequestedWeeks(kwargs.weeks)])>>

\* query_available_people: the data-store calls it makes
query_available_people_calls(kwargs) ==
    IF FilterArguments(kwargs) # <<>> THEN <<>>
    ELSE LET people_results == query_people(NoArg)
             emp_details == EmpDetails(people_results, kwargs.rank_below, kwargs.rank_above)
         IN  IF Contains(people_results, "No employees found") \/ emp_details = <<>>
             THEN query_people_calls(NoArg)
             ELSE query_people_calls(NoArg)
                    \o <<Call("fetch_availability_batch",
                              [employee_numbers |-> EmpNumbers(emp_details),
                               weeks |-> RequestedWeeks(kwargs.weeks)])>>

(***************************************************************************)
(* The stores and the arguments the store operations are run with.         *)
(***************************************************************************)
MaxEmployees == 2

\* f"EMP{str(i+1).zfill(3)}", i + 1 below ten
EmployeeNumber(n) == "EMP00" \o IntStr(n)

Staff ==
    {[name |-> "Ann", location |-> "London", rank |-> "Partner",
      skills |-> <<"Architect">>],
     [name |-> "Bob", location |-> "London", rank |-> "Managing Consultant",
      skills |-> <<"Backend Developer", "AWS Engineer">>],
     [name |-> "Bob", location |-> "Oslo", rank |-> "Principal Consultant",
      skills |-> <<"Frontend Developer">>],
     [name |-> "Cy", location |-> "Oslo", rank |-> "Consultant",
      skills |-> <<"Frontend Developer">>]}

\* an availability document with its eight week documents
AvailabilityDoc(pattern, first, later) ==
    [pattern_description |-> pattern,
     weeks |-> [w \in 1..8 |-> IF w = 1 THEN first ELSE later]]

NoDoc == [pattern_description |-> None, weeks |-> <<>>]

Docs ==
    {NoDoc,
     AvailabilityDoc("Generally available", "Available", "Available"),
     AvailabilityDoc("Generally available", "Available", "Partially Available"),
     AvailabilityDoc("Mixed availability", "Available", "Available")}

EmployeesOf(staff) ==
    [i \in DOMAIN staff |->
        [employee_number |-> EmployeeNumber(i), name |-> staff[i].name,
         location |-> staff[i].location, rank |-> staff[i].rank,
         skills |-> staff[i].skills]]

AvailabilityOf(docs) ==
    [emp_num \in {EmployeeNumber(i) : i \in {j \in DOMAIN docs : docs[j] # NoDoc}} |->
        docs[CHOOSE i \in DOMAIN docs : EmployeeNumber(i) = emp_num]]

NoKwargs ==
    [skills |-> <<>>, location |-> None, rank |-> None, rank_below |-> None,
     rank_above |-> None, employee_numbers |-> <<>>, weeks |-> <<>>]

\* calls that select people with an argument query_people is handed
FilteredKwargs ==
    {[NoKwargs EXCEPT !.location = "London", !.rank = "Partner", !.rank_below = "Partner"],
     [NoKwargs EXCEPT !.employee_numbers = <<EmployeeNumber(1)>>,
                      !.skills = <<"Architect">>, !.weeks = <<1>>]}

\* calls that take every employee, then the rank constraints and the weeks
RankWeekKwargs ==
    {[NoKwargs EXCEPT !.rank_below = below, !.rank_above = above, !.weeks = <<1, 3>>] :
        below \in {None, "Managing Consultant"},
        above \in {None, "Managing Consultant"}}
    \cup {[NoKwargs EXCEPT !.weeks = weeks] : weeks \in {<<>>, <<1>>, <<3, 1>>}}

AvailablePeopleKwargs == FilteredKwargs \cup RankWeekKwargs

\* the arguments query_people is run with against a store
PeopleArgs ==
    {NoArg, Str("consultants in London"), Str("people similar to ann"),
     Dict([skills |-> <<"Juggler">>]),
     Dict([skills |-> <<"Juggler", "Pilot">>, location |-> "London"]),
     Dict([ranks |-> <<"Partner", "Consultant">>, rank |-> "Analyst",
           skills |-> <<"Architect", "Juggler">>])}

\* the arguments of is_fully_available
PatternArgs ==
    {None, "", "Generally available", " Generally available ", "Generally available\n",
     "generally available", "GENERALLY AVAILABLE", "Generally  available",
     "Mixed availability", "Available"}

StatusArgs ==
    {None, "", "Available", "  Available", "Available\t", "available", "AVAILABLE",
     "Partially Available", "Not Available", "Unknown"}

(***************************************************************************)
(* The store operations as steps.                                          *)
(***************************************************************************)
\* the texts get_ranks_tool is called with
RanksToolArgs ==
    {head \o "below " \o rank :
        head \in {"", "who is "},
        rank \in RankNames \cup {"MC", "AssociatePartner", "Director"}}
        \cup {"above Partner", "ranks"}

GetRanksTool ==
    /\ Idle
    /\ \E query_str \in RanksToolArgs :
        Done("get_ranks_tool", query_str, get_ranks_tool(query_str), <<>>)

\* the texts translate_query is called with: a question, alone or after the
\* table of an earlier answer
PeopleTables ==
    {"",
     "| Name | Employee ID |\n| Ann | EMP001 |\n",
     "| Ann | London | Partner | EMP001 |\n| Bob | Oslo | Consultant | EMP002 |\n"}

AvailabilityQuestions ==
    {"who is available in week 3", "are they available in week 2 and week 1",
     "is EMP001 available in week 3", "are EMP001 and EMP002 free in week 1",
     "availability in weeks 3 and 4", "available in week 3 or week 3",
     "what about Week  12", "are they available", "week 0",
     "partners in London", "weekly plan 5"}

TranslateTexts == {table \o question : table \in PeopleTables, question \in AvailabilityQuestions}

TranslateQuery ==
    /\ Idle
    /\ \E query \in TranslateTexts :
        Done("translate_query", query, Translator_translate_query(query), <<>>)

\* the texts the LLM-backed translation is run with, and what the completion
\* call may do
LlmQueryTexts == {"consultants in London", "partners outside UK", "xyzzy"}

ResponseTexts ==
    {"{\"rank\": \"Consultant\", \"location\": \"London\"}",
     "  {\"locations\": [\"Copenhagen\", \"Oslo\"], \"rank\": \"Partner\"}\n",
     "Here is the JSON: {\"skills\": [\"Frontend Developer\", \"Juggler\"]}",
     "{\"rank\": \"Partner\"} I hope this helps",
     "{\"rank\": \"Partner\"} {\"rank\": \"Analyst\"}",
     "Sure: {\"rank\": \"Partner\"} or {\"rank\": \"Analyst\"}",
     "I could not understand the query",
     "{\"rank\": \"Partner\"",
     "{}", "", "} {",
     "{\"rank\": \"Boss\"}",
     "json\n{\"ranks\": [\"Consultant\", \"Analyst\"], \"skills\": []}\n",
     "{\"rank\": \"Partner\", \"rank\": \"Analyst\"}"}

Completions == {CompletionFails} \cup {Completion(text) : text \in ResponseTexts}

LlmConstructQuery ==
    /\ Idle
    /\ \E query_str \in LlmQueryTexts, completion \in Completions :
        Done("Llm_construct_query", [query_str |-> query_str, completion |-> completion],
             Llm_construct_query(query_str, completion),
             Llm_construct_query_calls(query_str))

LlmTranslateQuery ==
    /\ Idle
    /\ \E query_str \in LlmQueryTexts, completion \in Completions :
        Done("Llm_translate_query", [query_str |-> query_str, completion |-> completion],
             Llm_translate_query(query_str, completion),
             Llm_construct_query_calls(query_str))

\* the skill requests, and the texts the completion call may return for them
SkillQueries == {"Architect", "AWS Engineer", "architect", "frontend engineer", ""}

SkillCompletions ==
    {CompletionFails}
        \cup {Completion(text) :
                text \in {"AWS Engineer", " Architect\n", "None", "Frontend Developer.",
                          "aws engineer", "", "Juggler"}}

TranslateSkillQuery ==
    /\ Idle
    /\ \E skill_query \in SkillQueries, completion \in SkillCompletions :
        Done("translate_skill_query",
             [skill_query |-> skill_query, completion |-> completion],
             translate_skill_query(skill_query, completion),
             <<Call("llm.complete", skill_query)>>)

IsFullyAvailable ==
    /\ Idle
    /\ \E pattern \in PatternArgs, status \in StatusArgs :
        Done("is_fully_available", <<pattern, status>>,
             is_fully_available(pattern, status), <<>>)

TranslatePeopleQuery ==
    /\ Idle
    /\ \E query_str \in QueryTexts :
        Done("query_people", Str(query_str), query_people(Str(query_str)),
             query_people_calls(Str(query_str)))

QueryPeople ==
    /\ Idle
    /\ \E query_str \in PeopleArgs :
        Done("query_people", query_str, query_people(query_str),
             query_people_calls(query_str))

\* the arguments fetch_availability_batch and query_availability are run with
BatchNumbers ==
    {<<"EMP001">>, <<"EMP002", "EMP001">>, <<"EMP009", "EMP001", "EMP001">>}

BatchWeeks == {<<1>>, <<2, 9>>, DefaultWeeks}

AvailabilityArgs ==
    {[employee_numbers |-> <<"EMP001", "EMP002">>, weeks |-> <<>>],
     [employee_numbers |-> <<"EMP002", "EMP009">>, weeks |-> <<9, 2>>]}

\* the filters fetch_employees is run with
EmployeeFilters ==
    {<<>>,
     [locations |-> <<"Oslo">>],
     [location_in |-> <<"Oslo">>],
     [rank |-> "Partner", location |-> "London"],
     [ranks |-> <<"Partner", "Consultant">>],
     [location |-> "Oslo", skills |-> <<"Frontend Developer", "AWS Engineer">>]}

FetchEmployees ==
    /\ Idle
    /\ \E filters \in EmployeeFilters :
        Done("fetch_employees", filters, fetch_employees(filters), <<>>)

FetchAvailabilityBatch ==
    /\ Idle
    /\ \E employee_numbers \in BatchNumbers, weeks \in BatchWeeks :
        Done("fetch_availability_batch",
             [employee_numbers |-> employee_numbers, weeks |-> weeks],
             fetch_availability_batch(employee_numbers, weeks), <<>>)

QueryAvailability ==
    /\ Idle
    /\ \E a \in AvailabilityArgs :
        Done("query_availability", a, query_availability(a.employee_numbers, a.weeks),
             <<Call("fetch_availability_batch",
                    [employee_numbers |-> a.employee_numbers,
                     weeks |-> RequestedWeeks(a.weeks)])>>)

QueryAvailablePeople ==
    /\ Idle
    /\ \E kwargs \in AvailablePeopleKwargs :
        \E result \in query_available_people(kwargs) :
            Done("query_available_people", kwargs, result,
                 query_available_people_calls(kwargs))

\* the operations that need no employee data, run against the empty store
InitTranslate ==
    /\ employees = <<>>
    /\ availability = <<>>
    /\ store_ok = TRUE
    /\ op = "idle"
    /\ args = None
    /\ ret = None
    /\ calls = <<>>

NextTranslate ==
    \/ GetRanksBelow
    \/ ConstructQuery
    \/ ValidateQuery
    \/ TranslatorValidateQuery
    \/ TranslatePeopleQuery
    \/ IsFullyAvailable
    \/ GetRanksTool
    \/ TranslateQuery
    \/ LlmConstructQuery
    \/ LlmTranslateQuery
    \/ TranslateSkillQuery
    \/ Return

SpecTranslate == InitTranslate /\ [][NextTranslate]_vars

\* the operations that read the store, run against every store of the bounds
InitStore ==
    /\ \E n \in 0..MaxEmployees :
        \E staff \in [1..n -> Staff], docs \in [1..n -> Docs] :
            /\ employees = EmployeesOf(staff)
            /\ availability = AvailabilityOf(docs)
    /\ store_ok = TRUE
    /\ op = "idle"
    /\ args = None
    /\ ret = None
    /\ calls = <<>>

NextStore ==
    \/ QueryPeople
    \/ QueryAvailablePeople
    \/ FetchEmployees
    \/ FetchAvailabilityBatch
    \/ QueryAvailability
    \/ Return

SpecStore == InitStore /\ [][NextStore]_vars

\* the same operations while the data store is unavailable
InitOutage ==
    /\ \E n \in 0..MaxEmployees :
        \E staff \in [1..n -> Staff], docs \in [1..n -> Docs] :
            /\ employees = EmployeesOf(staff)
            /\ availability = AvailabilityOf(docs)
    /\ store_ok = FALSE
    /\ op = "idle"
    /\ args = None
    /\ ret = None
    /\ calls = <<>>

SpecOutage == InitOutage /\ [][NextStore]_vars

(***************************************************************************)
(* Claims about the operations that read no employee data, checked under   *)
(* SpecTranslate.                                                          *)
(***************************************************************************)
BaseLevel(rank) == Get(Base_RANK_HIERARCHY, rank, 0)
BasePosition(rank) == IndexOf(Keys(Base_RANK_HIERARCHY), rank)

\* ranks is exactly the ranks strictly junior to rank, each once, from the most
\* senior to the least senior, ranks of one level in table order
IsRanksBelow(ranks, rank) ==
    /\ Range(ranks) = {r \in RankNames : BaseLevel(r) > BaseLevel(rank)}
    /\ \A i, j \in DOMAIN ranks :
        i < j => \/ BaseLevel(ranks[i]) < BaseLevel(ranks[j])
                 \/ /\ BaseLevel(ranks[i]) = BaseLevel(ranks[j])
                    /\ BasePosition(ranks[i]) < BasePosition(ranks[j])
    /\ \A r \in Range(ranks) : r # rank /\ BaseLevel(r) # BaseLevel(rank)

BelowPartner ==
    <<"Associate Partner", "Consulting Director", "Managing Consultant",
      "Principal Consultant", "Senior Consultant", "Consultant", "Consultant Analyst",
      "Analyst">>

\* C3 as stated: for a canonical rank, get_ranks_below is the list of the strictly
\* junior ranks in seniority order, without the rank or a rank of its level; for
\* every name that is not in the hierarchy it is the empty list.
C3_RanksBelowOrEmpty ==
    op = "get_ranks_below" =>
        /\ args \in RankNames => IsRanksBelow(ret, args)
        /\ args = "Partner" => ret = BelowPartner
        /\ args \notin RankNames => ret = <<>>

\* C3 as amended: the same, but the alias "mc", in any letter case, is answered
\* as Managing Consultant; every other name outside the hierarchy gives the empty
\* list.
C3_RanksBelowAliasMC ==
    op = "get_ranks_below" =>
        /\ args \in RankNames => IsRanksBelow(ret, args)
        /\ args = "Partner" => ret = BelowPartner
        /\ lower(args) = "mc" => IsRanksBelow(ret, "Managing Consultant")
        /\ (args \notin RankNames /\ lower(args) # "mc") => ret = <<>>

C3_Witness ==
    /\ op = "get_ranks_below"
    /\ args = "Associate Partner"
    /\ "Managing Consultant" \in Range(ret)
    /\ "Consulting Director" \notin Range(ret)

MentionsPlaceWeekOrSkill(query_lower) ==
    \/ Contains(query_lower, "week")
    \/ \E i \in DOMAIN Base_locations : Contains(query_lower, lower(Base_locations[i]))
    \/ MatchedSkills(query_lower) # {}

BelowMC ==
    <<"Principal Consultant", "Senior Consultant", "Consultant", "Consultant Analyst",
      "Analyst">>

\* C4: a query with "below" and "MC" or "Managing Consultant", and no week,
\* location or skill words, is translated to the filter whose only key is ranks,
\* holding the ranks below Managing Consultant in order.
C4_BelowMCFilter ==
    ( /\ op = "construct_query"
      /\ Contains(lower(args), "below")
      /\ Contains(args, "MC") \/ Contains(args, "Managing Consultant")
      /\ ~MentionsPlaceWeekOrSkill(lower(args)) )
        => ret = [ranks |-> BelowMC]

\* C7: no filter returned by construct_query or validate_query has both the key
\* rank and the key ranks.
C7_RankRanksExclusive ==
    op \in {"construct_query", "validate_query", "Translator_validate_query"}
        => ~(Has(ret, "rank") /\ Has(ret, "ranks"))

\* the catalog a validator checks the values of a key against
Catalog(validator, key) ==
    IF validator = "validate_query"
    THEN CASE key \in {"rank", "ranks"} -> RankNames
           [] key \in {"location", "locations"} -> Range(Base_locations)
           [] key = "skills" -> Base_standard_skills
    ELSE CASE key \in {"rank", "ranks"} -> Range(Keys(Translator_RANK_LEVELS))
           [] key \in {"location", "locations"} -> Range(Translator_all_locations)
           [] key = "skills" -> Translator_all_skills

\* the values a filter or a candidate holds under a key
CandidateValues(query, key) ==
    IF ~Has(query, key) THEN {}
    ELSE IF query[key].t = "list" THEN Range(query[key].v) ELSE {query[key].v}
FilterValues(filter, key) ==
    IF ~Has(filter, key) THEN {}
    ELSE IF key \in {"rank", "location"} THEN {filter[key]} ELSE Range(filter[key])

FilterKeys == {"rank", "ranks", "location", "locations", "skills"}

\* C8: validate_query returns only catalog members, and keeps every catalog-valid
\* value of the candidate under the key it was found under.
C8_ValidateKeepsValid ==
    op \in {"validate_query", "Translator_validate_query"} =>
        \A key \in FilterKeys :
            /\ FilterValues(ret, key) \subseteq Catalog(op, key)
            /\ (CandidateValues(args, key) \cap Catalog(op, key))
                    \subseteq FilterValues(ret, key)

\* C9: for every canonical rank R, a query that names R (singular or plural, in
\* any letter case), with no collective phrase and no below/above/under, is
\* translated to a filter with rank = R and no ranks key.
C9_SpecificRank ==
    op = "construct_query" =>
        \A rank \in RankNames :
            args \in {form \o tail : form \in RankForms(rank), tail \in PlaceTails}
                => Has(ret, "rank") /\ ret["rank"] = rank /\ ~Has(ret, "ranks")

\* x is core with nothing but whitespace around it
Padded(x, core) ==
    /\ x # None
    /\ \E i \in 1..(Len(x) - Len(core) + 1) :
        /\ SubSeq(x, i, i + Len(core) - 1) = core
        /\ \A j \in 1..Len(x) :
            (j < i \/ j >= i + Len(core)) => CharAt(x, j) \in {" ", "\t", "\n", "\r"}

\* C2: is_fully_available(pattern, status) is true if and only if the pattern,
\* surrounding whitespace apart, is exactly "Generally available" and the status,
\* surrounding whitespace apart, is exactly "Available"; a missing or empty value
\* and a difference in letter case give false.
C2_FullyAvailableIff ==
    op = "is_fully_available" =>
        (ret <=> (Padded(args[1], "Generally available") /\ Padded(args[2], "Available")))

C2_Witness ==
    /\ op = "is_fully_available"
    /\ args = <<" Generally available ", "Available\t">>
    /\ ret = TRUE

\* a query with a collective phrase and no hierarchy keyword
IsCollective(text) ==
    /\ \/ Contains(lower(text), "all consultants")
       \/ Contains(lower(text), "consulting resources")
    /\ ~\E word \in {"below", "above", "under"} : Contains(lower(text), word)

\* the filter has ranks, holding the five Consultant ranks and no other, and no rank
IsConsultantRanksFilter(filter) ==
    /\ Has(filter, "ranks")
    /\ Range(filter["ranks"]) =
            {"Principal Consultant", "Managing Consultant", "Senior Consultant",
             "Consultant", "Consultant Analyst"}
    /\ ~Has(filter, "rank")

\* C10: a query with "all consultants" or "consulting resources" and no
\* below/above/under is translated, by construct_query and by query_people (whose
\* filter is the one it fetches the employees with), to a filter whose ranks are
\* exactly the five ranks named Consultant, with no rank key.
C10_CollectiveRanks ==
    /\ (op = "construct_query" /\ IsCollective(args)) => IsConsultantRanksFilter(ret)
    /\ (op = "query_people" /\ args.t = "str" /\ IsCollective(args.v)) =>
            /\ calls # <<>>
            /\ calls[Len(calls)].fn = "fetch_employees"
            /\ IsConsultantRanksFilter(calls[Len(calls)].arg)

(***************************************************************************)
(* Claims about the store operations, checked under SpecStore.             *)
(***************************************************************************)
RootLevel(rank) == Get(RANK_HIERARCHY, rank, 0)

\* the people step of the call was run: no argument was handed to query_people
ReachedPeople == op = "query_available_people" /\ FilterArguments(args) = <<>>

\* the part of the report under its roster heading
Roster(report) ==
    IF Contains(report, "FULLY AVAILABLE PEOPLE:\n")
    THEN Split(report, "FULLY AVAILABLE PEOPLE:\n")[2]
    ELSE ""

\* the employee is generally available and Available in each week of the set
AvailableEveryWeek(employee, weeks) ==
    /\ employee.employee_number \in DOMAIN availability
    /\ availability[employee.employee_number].pattern_description = "Generally available"
    /\ \A week \in weeks :
        /\ week \in DOMAIN availability[employee.employee_number].weeks
        /\ availability[employee.employee_number].weeks[week] = "Available"

\* C1: an employee is on the final roster of query_available_people only if their
\* pattern is "Generally available" and their status is "Available" in every
\* requested week (an employee of the same name, rank and city counts as them).
C1_ListedOnlyIfAvailableEveryWeek ==
    ReachedPeople =>
        \A i \in DOMAIN employees :
            Contains(Roster(ret), RosterLine(employees[i])) =>
                \E j \in DOMAIN employees :
                    /\ RosterLine(employees[j]) = RosterLine(employees[i])
                    /\ AvailableEveryWeek(employees[j],
                                          IF args.weeks = <<>> THEN 1..8 ELSE Range(args.weeks))

\* the report has the status block of the employee
Appears(report, employee) ==
    Contains(report, " " \o employee.name \o " (" \o employee.rank \o "):\n")

\* C5: with rank_below = R every employee in the report has a rank strictly junior
\* to R, a member of get_ranks_below(R); with rank_above = R every employee in the
\* report has a rank strictly more senior than R.
C5_RankConstraints ==
    ReachedPeople =>
        \A i \in DOMAIN employees :
            Appears(ret, employees[i]) =>
                /\ args.rank_below \in Range(RootRankNames) =>
                        employees[i].rank \in Range(get_ranks_below(args.rank_below))
                /\ args.rank_above \in Range(RootRankNames) =>
                        RootLevel(employees[i].rank) < RootLevel(args.rank_above)

\* the employees the rank constraints of the call let through
Remaining ==
    {i \in DOMAIN employees :
        PassesRankFilters(employees[i].rank, args.rank_below, args.rank_above)}

\* C6: in a run of query_available_people that reaches the rank constraints, when
\* no employee remains after them the operation returns "No employees found
\* matching the rank criteria." and makes no fetch_availability_batch call.
C6_NoSurvivorsNoFetch ==
    (ReachedPeople /\ Remaining = {}) =>
        /\ ret = "No employees found matching the rank criteria."
        /\ \A i \in DOMAIN calls : calls[i].fn # "fetch_availability_batch"

C6_Witness ==
    /\ ReachedPeople
    /\ employees # <<>>
    /\ args.rank_below = "Managing Consultant"
    /\ Remaining = {}
    /\ ret = "No employees found matching the rank criteria."
    /\ calls = <<Call("fetch_employees", <<>>)>>

(***************************************************************************)
(* Claims about the text "below R" and "above R".                          *)
(***************************************************************************)
\* the ranks a report of get_ranks_tool lists, one per "- " line
ReportedRanks(report) ==
    LET lines == Split(report, "\n")
        items == SelectSeq(lines, LAMBDA line : Len(line) > 2 /\ SubSeq(line, 1, 2) = "- ")
    IN  [i \in DOMAIN items |-> SubSeq(items[i], 3, Len(items[i]))]

\* C11: for every canonical rank R the text "below R" is resolved to R itself:
\* construct_query returns ranks = get_ranks_below(R), and get_ranks_tool
\* reports the ranks below R, never those below a rank whose name is part of R's.
C11_BelowResolvesNamedRank ==
    \A R \in RankNames :
        /\ (op = "construct_query" /\ args \in {"below " \o R, "staff below " \o R})
                => Has(ret, "ranks") /\ ret["ranks"] = Base_get_ranks_below(R)
        /\ (op = "get_ranks_tool" /\ args \in {"below " \o R, "who is below " \o R})
                => ReportedRanks(ret) = get_ranks_below(R)

\* the ranks strictly more senior than rank
RanksAbove(rank) == {r \in RankNames : BaseLevel(r) < BaseLevel(rank)}

\* the texts that say "above" and name rank, by its name or by its alias
AboveTexts(rank) ==
    {head \o "above " \o form :
        head \in {"", "staff "},
        form \in {rank} \cup (IF rank = "Managing Consultant" THEN {"MC", "mc"} ELSE {})}

\* C12: a query containing "above" and naming the canonical rank R, by name or
\* by the alias MC, is translated to a filter whose ranks are exactly the ranks
\* strictly more senior than R, never R or a rank junior to R.
C12_AboveGivesSeniorRanks ==
    \A R \in RankNames :
        (op = "construct_query" /\ args \in AboveTexts(R))
            => Range(IF Has(ret, "ranks") THEN ret["ranks"] ELSE <<>>) = RanksAbove(R)

(***************************************************************************)
(* Claims about query_people and the store, checked under SpecStore.       *)
(***************************************************************************)
\* a filter whose skills list is non-empty and holds no canonical skill
HasOnlyUnknownSkills(query_str) ==
    /\ query_str.t = "dict"
    /\ Has(query_str.v, "skills")
    /\ query_str.v["skills"] # <<>>
    /\ \A i \in DOMAIN query_str.v["skills"] : query_str.v["skills"][i] \notin standard_skills

\* C13: when query_people receives a filter whose skills list is non-empty and
\* none of its entries is a canonical skill, it returns the "I couldn't
\* understand the requested skill" message, makes no employee fetch, and returns
\* neither a table nor the no-results message nor an error.
C13_UnknownSkillsNoFetch ==
    (op = "query_people" /\ HasOnlyUnknownSkills(args))
        => /\ Contains(ret, "I couldn't understand the requested skill")
           /\ calls = <<>>
           /\ ret # "No matching employees found."
           /\ ~Contains(ret, "| Name |")
           /\ ~Contains(ret, "Error querying people")

C13_Witness ==
    /\ op = "query_people"
    /\ args = Dict([skills |-> <<"Juggler", "Pilot">>, location |-> "London"])
    /\ \E i \in DOMAIN employees : employees[i].location = "London"
    /\ Contains(ret, "I couldn't understand the requested skill")
    /\ calls = <<>>

(***************************************************************************)
(* Claims about failures.                                                  *)
(***************************************************************************)
\* the operations that return a string, and the one that returns a filter
StringOperations == {"query_people", "query_availability", "query_available_people",
                     "get_ranks_tool"}

\* the result of an operation that returns a filter is an exception
IsRaised(result) == Has(result, "raised")

\* C14: every public operation (translate_query, query_people,
\* query_availability, query_available_people, get_ranks_tool) returns a string
\* or a filter, whatever fails during it: no exception reaches its caller.
C14_NoExceptionReachesCaller ==
    /\ op \in StringOperations => Len(ret) > 0
    /\ op = "translate_query" => ~IsRaised(ret)

\* the last data-store call of the operation fetched employees and none matched
FetchMatchedNone ==
    /\ calls # <<>>
    /\ calls[Len(calls)].fn = "fetch_employees"
    /\ ~\E i \in DOMAIN employees : Matches(employees[i], calls[Len(calls)].arg)

\* C15: query_people returns its no-results message only when the employee
\* fetch completed and matched zero employees; when the data store raises during
\* the fetch, the string returned is an error message, not the no-results
\* message.
C15_NoResultsOnlyWhenFetched ==
    op = "query_people" =>
        /\ ret = "No matching employees found." => store_ok /\ FetchMatchedNone
        /\ (~store_ok /\ calls # <<>>)
                => ret # "No matching employees found." /\ Contains(ret, "Error")

(***************************************************************************)
(* Claims about the store reads, checked under SpecStore.                  *)
(***************************************************************************)
\* the requested numbers that have an employee record and an availability record
WithBothRecords(employee_numbers) ==
    {n \in Range(employee_numbers) :
        /\ \E i \in DOMAIN employees : employees[i].employee_number = n
        /\ n \in DOMAIN availability}

\* the entry holds, week by week, the recorded status or "Unknown"
HoldsEveryWeek(entry, weeks) ==
    /\ Len(entry.weeks) = Len(weeks)
    /\ \A k \in DOMAIN weeks :
        entry.weeks[k] = IF weeks[k] \in DOMAIN availability[entry.emp_num].weeks
                         THEN availability[entry.emp_num].weeks[weeks[k]]
                         ELSE "Unknown"

\* C16: fetch_availability_batch(employee_numbers, weeks) returns one entry for
\* exactly the requested numbers that have an employee record and an
\* availability record; every entry holds a status for every requested week,
\* "Unknown" where the store has no record; query_availability given no weeks
\* asks for weeks 1 to 8.
C16_BatchEntries ==
    /\ op = "fetch_availability_batch" =>
        /\ {ret[i].emp_num : i \in DOMAIN ret} = WithBothRecords(args.employee_numbers)
        /\ \A i, j \in DOMAIN ret : ret[i].emp_num = ret[j].emp_num => i = j
        /\ \A i \in DOMAIN ret : HoldsEveryWeek(ret[i], args.weeks)
    /\ (op = "query_availability" /\ args.weeks = <<>>) =>
        calls[1].arg.weeks = <<1, 2, 3, 4, 5, 6, 7, 8>>

C16_Witness ==
    /\ op = "fetch_availability_batch"
    /\ args.weeks = <<2, 9>>
    /\ Len(ret) = 1
    /\ ret[1].weeks[1] # "Unknown"
    /\ ret[1].weeks[2] = "Unknown"
    /\ Range(args.employee_numbers) # WithBothRecords(args.employee_numbers)

(***************************************************************************)
(* Claims about the roster and the employee fetch, checked under SpecStore.*)
(***************************************************************************)
\* a is more senior than b by the table of src/agent_tools.py and by that of base.py
MoreSenior(a, b) == RootLevel(a) < RootLevel(b) /\ BaseLevel(a) < BaseLevel(b)

\* the lines of the final roster
RosterList(report) == Split(Roster(report), "\n")

Listed(report, employee) ==
    \E k \in DOMAIN RosterList(report) : RosterList(report)[k] \o "\n" = RosterLine(employee)

\* the line of the first employee comes before the line of the second
ListedBefore(report, first, second) ==
    \E k, l \in DOMAIN RosterList(report) :
        /\ k < l
        /\ RosterList(report)[k] \o "\n" = RosterLine(first)
        /\ RosterList(report)[l] \o "\n" = RosterLine(second)

\* C17: the final roster of query_available_people is ordered by seniority
\* descending and then by name ascending: of two listed employees the more
\* senior is listed first, and of two of the same rank the one whose name sorts
\* first is listed first.
C17_RosterOrder ==
    ReachedPeople =>
        \A i, j \in DOMAIN employees :
            LET a == [name |-> employees[i].name, rank |-> employees[i].rank,
                      location |-> employees[i].location]
                b == [name |-> employees[j].name, rank |-> employees[j].rank,
                      location |-> employees[j].location]
            IN  ( /\ Listed(ret, a) /\ Listed(ret, b)
                  /\ \/ MoreSenior(a.rank, b.rank)
                     \/ a.rank = b.rank /\ StrLess(a.name, b.name) )
                    => ListedBefore(ret, a, b)

\* the employee satisfies every field present in the filter
Satisfies(employee, filter) ==
    /\ Has(filter, "rank") => employee.rank = filter["rank"]
    /\ Has(filter, "ranks") => employee.rank \in Range(filter["ranks"])
    /\ Has(filter, "location") => employee.location = filter["location"]
    /\ Has(filter, "locations") => employee.location \in Range(filter["locations"])
    /\ Has(filter, "skills") => Range(employee.skills) \cap Range(filter["skills"]) # {}

\* C18: fetch_employees(filter) returns exactly the employees of the store that
\* satisfy every field present in the filter: rank, ranks, location, locations
\* and skills; a locations list restricts the result to those cities.
C18_FetchSatisfiesFilter ==
    op = "fetch_employees" =>
        /\ {ret[i].employee_number : i \in DOMAIN ret}
                = {employees[i].employee_number :
                        i \in {k \in DOMAIN employees : Satisfies(employees[k], args)}}
        /\ Len(ret) = Cardinality({k \in DOMAIN employees : Satisfies(employees[k], args)})

(***************************************************************************)
(* Claims about weeks and employee identifiers in query text.              *)
(***************************************************************************)
StrictlyAscendingPositive(weeks) ==
    /\ \A i \in DOMAIN weeks : weeks[i] > 0
    /\ \A i, j \in DOMAIN weeks : i < j => weeks[i] < weeks[j]

\* C19: "week N", "weeks N and M" and "next N weeks" are translated to weeks
\* [N], the list of N and M, and [1..N]; a token after "weeks" that is not a
\* number is skipped; in every filter the translators produce, the weeks list is
\* strictly ascending, without duplicates, and holds only positive integers.
C19_WeeksParsed ==
    /\ op = "construct_query" =>
        /\ args \in {"week 2"} => ret["weeks"] = <<2>>
        /\ args \in {"who is available in week 3"} => ret["weeks"] = <<3>>
        /\ args \in {"weeks 2 and 5"} => ret["weeks"] = <<2, 5>>
        /\ args \in {"consultants available in weeks 3 and 4",
                     "consultants available in weeks 4 and 3"} => ret["weeks"] = <<3, 4>>
        /\ args \in {"next 3 weeks"} => ret["weeks"] = <<1, 2, 3>>
        /\ args \in {"who is available in the next 2 weeks"} => ret["weeks"] = <<1, 2>>
        /\ args \in {"availability for weeks x and 2"} => ret["weeks"] = <<2>>
    /\ (op \in {"construct_query", "translate_query"} /\ Has(ret, "weeks"))
            => StrictlyAscendingPositive(ret["weeks"])

\* the identifiers of the form EMP followed by digits that the text holds, from
\* position i on
RECURSIVE EmpIdentifiersFrom(_, _)
EmpIdentifiersFrom(text, i) ==
    IF i + 3 > Len(text) THEN <<>>
    ELSE IF SubSeq(text, i, i + 2) = "EMP" /\ RunLen(text, i + 3, DIGITS) > 0
    THEN <<SubSeq(text, i, i + 2 + RunLen(text, i + 3, DIGITS))>>
            \o EmpIdentifiersFrom(text, i + 3 + RunLen(text, i + 3, DIGITS))
    ELSE EmpIdentifiersFrom(text, i + 1)

\* an availability word, an identifier and a week number ("week" and digits)
IsAvailabilityFollowUp(text) ==
    /\ \E word \in {"available", "availability", "week"} : Contains(lower(text), word)
    /\ EmpIdentifiersFrom(text, 1) # <<>>
    /\ WeekNumbersFrom(lower(text), 1) # <<>>

\* C20: for every text with an availability word, at least one identifier EMP
\* and digits, and at least one week number, translate_query returns a filter
\* with exactly the keys employee_numbers and weeks, holding the identifiers
\* found and the week numbers in ascending order, and makes no completion call.
C20_FollowUpShortCircuit ==
    (op = "translate_query" /\ IsAvailabilityFollowUp(args))
        => /\ DOMAIN ret = {"employee_numbers", "weeks"}
           /\ Range(ret["employee_numbers"]) = Range(EmpIdentifiersFrom(args, 1))
           /\ Range(ret["weeks"]) = Range(WeekNumbersFrom(lower(args), 1))
           /\ \A i, j \in DOMAIN ret["weeks"] : i < j => ret["weeks"][i] <= ret["weeks"][j]
           /\ calls = <<>>

\* C25: every alias of the alias table resolves, in any letter case, to exactly
\* one canonical rank, and get_ranks_below called with an alias of rank r
\* returns the same list as get_ranks_below called with r's canonical name.
C25_AliasesResolve ==
    op = "get_ranks_below" =>
        /\ \A alias \in TableAliases :
            /\ Cardinality(AliasRows(alias)) = 1
            /\ rank_aliases[lower(alias)] \in RankNames
        /\ lower(args) \in DOMAIN rank_aliases
                => ret = Base_get_ranks_below(rank_aliases[lower(args)])

\* the canonical cities and the city groups a text names, letter case apart
NamedCities(text) ==
    {city \in Range(Base_locations) : Contains(lower(text), lower(city))}

NamedGroups(text) ==
    {i \in DOMAIN Translator_LOCATIONS :
        /\ Translator_LOCATIONS[i][1] \in {"Britain", "Nordics"}
        /\ Contains(lower(text), lower(Translator_LOCATIONS[i][1]))}

\* C26: for a text that names exactly one canonical city in any letter case,
\* construct_query sets location to the city's canonical spelling, also beside
\* a rank, a collective phrase or a skill; for a text that names a city group
\* (Britain, Nordics) it sets locations to the group's cities; a text that names
\* no city or group yields neither key.
C26_LocationOrGroup ==
    op = "construct_query" =>
        /\ \A city \in Range(Base_locations) :
            (NamedCities(args) = {city} /\ NamedGroups(args) = {})
                => Has(ret, "location") /\ ret["location"] = city
        /\ \A i \in DOMAIN Translator_LOCATIONS :
            (NamedGroups(args) = {i} /\ NamedCities(args) = {})
                => /\ Has(ret, "locations")
                   /\ Range(ret["locations"]) = Range(Translator_LOCATIONS[i][2])
        /\ (NamedCities(args) = {} /\ NamedGroups(args) = {})
                => ~Has(ret, "location") /\ ~Has(ret, "locations")

(***************************************************************************)
(* Claims about the LLM-backed translation, checked under SpecTranslate.   *)
(***************************************************************************)
\* the deterministic stages of base.py find a week, rank, location or skill
ResolvedDeterministically(query_str) ==
    \E skill_order \in Orders(MatchedSkills(lower(query_str))) :
        DOMAIN Base_construct_query(query_str, skill_order) # {}

MadeLlmCall == \E i \in DOMAIN calls : calls[i].fn = "llm.complete"

\* C21: during the translation of one query the LLM completion call is made
\* only if the deterministic stages produced an empty filter; "consultants in
\* London" is translated without any LLM call.
C21_LlmOnlyWhenUnresolved ==
    (op \in {"Llm_construct_query", "Llm_translate_query"} /\ MadeLlmCall)
        => ~ResolvedDeterministically(args.query_str)

\* the first {...} substring of a text: from its first "{" to the next "}";
\* None when there is none
FirstObjectText(text) ==
    LET start == FindFirst(text, "{")
        n == Until(text, start, "}")
    IN  IF start > 0 /\ start + n <= Len(text) THEN SubSeq(text, start, start + n)
        ELSE None

\* the filter the first {...} substring of the response gives: validated when
\* it parses, empty otherwise
FirstObjectFilter(text) ==
    IF FirstObjectText(text) # None /\ json_loads(FirstObjectText(text)).ok
    THEN validate_query(json_loads(FirstObjectText(text)).v)
    ELSE <<>>

\* C22: for every LLM response text the LLM-backed construct_query takes the
\* filter from the first {...} substring of the response, also when prose or a
\* second object follows it, and validates it; with no parseable object it
\* returns the empty filter, and translate_query then returns the "could not
\* parse" message.
C22_FirstObjectParsed ==
    /\ (op = "Llm_construct_query" /\ ~args.completion.raised)
            => /\ DOMAIN ret = DOMAIN FirstObjectFilter(args.completion.text)
               /\ \A k \in DOMAIN ret : ret[k] = FirstObjectFilter(args.completion.text)[k]
    /\ (op = "Llm_translate_query" /\ ~args.completion.raised
            /\ DOMAIN FirstObjectFilter(args.completion.text) = {})
            => ret = "Error: Could not parse query structure"

\* C24: for every canonical skill name x, translate_skill_query(x) returns x
\* unchanged, whatever text the LLM completion call returns; and for every
\* input and every LLM response its result is a canonical skill or None.
C24_CanonicalSkillUnchanged ==
    (op = "translate_skill_query" /\ ~args.completion.raised)
        => /\ args.skill_query \in standard_skills => ret = Returned(args.skill_query)
           /\ ret.returned \in standard_skills \cup {None}

(***************************************************************************)
(* Claims about the people query and the availability report, checked      *)
(* under SpecStore.                                                        *)
(***************************************************************************)
\* the filter of the operation's last employee fetch
LastFetchFilter == calls[Len(calls)].arg

\* C23: for "similar to <name>" query_people looks up the employee whose name
\* equals <name> and uses that employee's full skill set as the filter's
\* skills: the skills are those of the named employee and of no other, none is
\* dropped, and when no employee has that name no skills filter is adopted.
C23_SimilarToNamedEmployee ==
    (op = "query_people" /\ args = Str("people similar to ann"))
        => IF \E i \in DOMAIN employees : employees[i].name = "Ann"
           THEN /\ Has(LastFetchFilter, "skills")
                /\ \E i \in DOMAIN employees :
                    /\ employees[i].name = "Ann"
                    /\ LastFetchFilter["skills"] = employees[i].skills
           ELSE ~Has(LastFetchFilter, "skills")

\* the call selects people by employee numbers, skills, location or rank
SelectsPeople(kwargs) ==
    \/ kwargs.employee_numbers # <<>>
    \/ kwargs.skills # <<>>
    \/ Truthy(kwargs.location)
    \/ Truthy(kwargs.rank)

\* the employees the arguments select: the listed numbers, or else the
\* employees matching the given skills, location and rank
Selected(kwargs) ==
    {i \in DOMAIN employees :
        IF kwargs.employee_numbers # <<>>
        THEN employees[i].employee_number \in Range(kwargs.employee_numbers)
        ELSE /\ kwargs.skills # <<>>
                    => Range(employees[i].skills) \cap Range(kwargs.skills) # {}
             /\ Truthy(kwargs.location) => employees[i].location = kwargs.location
             /\ Truthy(kwargs.rank) => employees[i].rank = kwargs.rank}

\* C27: when query_available_people is called with a non-empty employee_numbers
\* list, or with skills, location or rank, the people step resolves exactly the
\* employees the argument selects and the operation reports on them; it does
\* not end in an error message because of the arguments alone.
C27_ArgumentsSelectPeople ==
    (op = "query_available_people" /\ SelectsPeople(args))
        => /\ ~Contains(ret, "Error querying available people")
           /\ calls # <<>>
           /\ \A i \in DOMAIN employees :
                Contains(ret, "| " \o employees[i].employee_number \o " |")
                    <=> \E j \in Selected(args) :
                            employees[j].employee_number = employees[i].employee_number

TranslatorLevel(rank) == Get(Translator_RANK_LEVELS, rank, 0)

\* C28: all rank tables define the same preorder: a is more senior than b in the
\* table of the root query tools if and only if it is in the table of the base
\* query-construction class and in that of QueryTranslator, so get_ranks_below
\* of a canonical rank returns the same list from the base class as from the
\* root tools.
C28_RankTablesAgree ==
    (op = "get_ranks_below" /\ args \in RankNames)
        => /\ ret = get_ranks_below(args)
           /\ \A a, b \in RankNames :
                /\ (RootLevel(a) < RootLevel(b)) <=> (BaseLevel(a) < BaseLevel(b))
                /\ (RootLevel(a) < RootLevel(b))
                        <=> (TranslatorLevel(a) < TranslatorLevel(b))

\* the pattern and the status of the first requested week in the availability
\* record of the employee number itself: what the table row of that employee
\* holds in the columns the code reads; Unknown where it has no record
OwnAvailability(employee, weeks) ==
    IF employee.employee_number \in DOMAIN availability
    THEN [pattern |-> availability[employee.employee_number].pattern_description,
          status |-> WeeksData(employee.employee_number, RequestedWeeks(weeks))[1]]
    ELSE [pattern |-> "Unknown", status |-> "Unknown"]

OwnStatusBlock(employee, weeks) ==
    " " \o employee.name \o " (" \o employee.rank \o "):\n"
        \o "  - Pattern: " \o OwnAvailability(employee, weeks).pattern \o "\n"
        \o "  - Status: " \o OwnAvailability(employee, weeks).status \o "\n"

\* C29: in query_available_people the availability shown for each surviving
\* employee, and the decision to list them as fully available, come from the
\* availability record of that same employee number, also when two surviving
\* employees have the same display name.
C29_OwnAvailabilityRecord ==
    (ReachedPeople /\ Contains(ret, "Availability Status:")) =>
        \A i \in Remaining :
            /\ Contains(ret, OwnStatusBlock(employees[i], args.weeks))
            /\ Contains(Roster(ret), RosterLine(employees[i])) =>
                    \E j \in Remaining :
                        /\ RosterLine(employees[j]) = RosterLine(employees[i])
                        /\ is_fully_available(
                                OwnAvailability(employees[j], args.weeks).pattern,
                                OwnAvailability(employees[j], args.weeks).status)

\* the ranks strictly between x and y, from the most senior to the least senior
IsRanksBetween(ranks, x, y) ==
    /\ Range(ranks) = {r \in RankNames : BaseLevel(x) < BaseLevel(r)
                                            /\ BaseLevel(r) < BaseLevel(y)}
    /\ \A i, j \in DOMAIN ranks :
        i < j => /\ ranks[i] # ranks[j]
                 /\ BaseLevel(ranks[i]) <= BaseLevel(ranks[j])

\* C30: a query that contains both "below X" and "above Y" for canonical ranks X
\* and Y, X more senior than Y, is translated by construct_query to a filter
\* whose ranks are exactly the ranks strictly between X and Y in hierarchy
\* order.
C30_RangeBetween ==
    op = "construct_query" =>
        \A x, y \in RankNames :
            (/\ BaseLevel(x) < BaseLevel(y)
             /\ args = "staff below " \o x \o " and above " \o y)
                => /\ Has(ret, "ranks")
                   /\ IsRanksBetween(ret["ranks"], x, y)

====
